---- MODULE Spec2Model ----
(***************************************************************************)
(* Render orchestration of remotion-app: render.mjs (B-roll aware variant) *)
(* driven either from the command line or by POST /api/render.             *)
(*                                                                         *)
(* One job is modelled from process start to process end.  The state is    *)
(* the position of main() (pc), the resources it opens (staging directory, *)
(* HTTP server), the calls it makes to the render engine, and the B-roll   *)
(* list as it is rewritten.  The render engine, ffmpeg, the network and    *)
(* the file system are the environment: their answers are chosen           *)
(* nondeterministically.                                                   *)
(***************************************************************************)
EXTENDS Integers, Sequences, FiniteSets, TLC

(* ---------------------------------------------------------------------- *)
(* Bounds                                                                  *)
(* ---------------------------------------------------------------------- *)
\* longest bRolls list of a manifest
MaxBRolls == 2
\* number of distinct values of the Date.now()/Math.random() part of a name
MaxNonce == 1
\* number of ports the operating system may assign to listen(0)
MaxPort == 2
\* largest size in bytes of a served file
MaxFileSize == 3
\* number of times the teardown step is applied to one server
MaxCloses == 2
\* number of export requests the app handles, and the milliseconds that
\* pass meanwhile
MaxJobs == 2
MaxClock == 1
\* longest source clip, and longest durationSeconds of an entry, in
\* seconds, where downloadToBrollDir is examined by itself
MaxClipSeconds == 2
MaxTrimSeconds == 3
\* longest caption list of a manifest
MaxCaptions == 1
\* largest duration in seconds a caller asks for
MaxDuration == 2

(* ---------------------------------------------------------------------- *)
(* Values                                                                  *)
(* ---------------------------------------------------------------------- *)
\* A file name: "<hint>-<ts>-<rand><ext>", "trim-" + that, or the basename
\* of a source path (hint = 0, nonce = 0).
MkName(hint, stem, nonce, ext, trim) ==
    [hint |-> hint, stem |-> stem, nonce |-> nonce, ext |-> ext, trim |-> trim]

\* NaN, the result of parseInt and Number on a string without digits, and
\* Infinity, the result of Number on "Infinity" or on a numeral too large
\* for a double: two values apart from the numbers of the model, which the
\* operators on numbers treat as JavaScript does
NaN == -1000000
Infinity == 1000000

\* basename of the empty string
EmptyName == MkName(0, "", 0, "", FALSE)

\* A src value of a B-roll entry.  scheme: "file" (file:// URI), "bare"
\* (filesystem path), "http" (remote), "empty" (no src and no url),
\* "nonstring" (a truthy value that is not a string), "public" (the URL
\* http://127.0.0.1:<port>/broll/<name> written by main).
MkSrc(scheme, stem, ext) ==
    [scheme |-> scheme, name |-> MkName(0, stem, 0, ext, FALSE)]

\* local paths that exist on the file system of the job
ExistingStems == {"clip"}
\* fs.existsSync for a B-roll source path
ExistsSync(src) == src.name.stem \in ExistingStems

\* path.extname(...) || ".jpg"
ExtOrJpg(ext) == IF ext = "" THEN ".jpg" ELSE ext

VideoExts == {".mp4", ".mov", ".mkv", ".webm", ".ogg", ".ogv", ".m4v"}

\* manifest B-roll entries: src and durationSeconds (a number or not),
\* and the fields main does not look at: id, type, thumb, startSeconds
MkEntry(src, durIsNum, dur) ==
    [src |-> src, durIsNum |-> durIsNum, dur |-> dur,
     id |-> "b", type |-> IF durIsNum THEN "video" ELSE "image",
     thumb |-> "thumb", startSeconds |-> 1]

ImageEntries ==
    { MkEntry(MkSrc(s, st, ".png"), FALSE, 0) :
        s \in {"file", "bare"}, st \in {"clip", "no file"} }
    \cup { MkEntry(MkSrc("http", "clip", ".png"), FALSE, 0) }

VideoEntries ==
    { MkEntry(MkSrc(s, "clip", ".mp4"), TRUE, 3) : s \in {"file", "bare", "http"} }
    \cup { MkEntry(MkSrc("bare", "clip", ".mp4"), TRUE, 0) }

OddEntries ==
    { MkEntry(MkSrc("empty", "", ""), FALSE, 0),
      MkEntry(MkSrc("nonstring", "", ""), TRUE, 3) }

Entries == ImageEntries \cup VideoEntries \cup OddEntries

SeqsUpTo(S, n) == UNION { [1..k -> S] : k \in 0..n }

(* ---------------------------------------------------------------------- *)
(* trimVideoCopyOrEncode                                                   *)
(* ---------------------------------------------------------------------- *)
\* result of one spawnSync of ffmpeg: exit status 0, non-zero status, or
\* r.error set (spawn failure, timeout)
TierResults == {"zero", "nonzero", "error"}

\* copy: result of the stream-copy tier; encode: result of the re-encode
\* tier (only used when the copy tier did not exit with status 0)
\* trimVideoCopyOrEncode that runs both tiers whatever the first returned
trimVideoCopyOrEncode_BothTiers(copy, encode) ==
    [ok |-> (copy = "zero" \/ encode = "zero"), runs |-> 2,
     tiers |-> << "copy", "encode" >>]

\* Result: ok (the value returned), the subprocesses spawned (tiers, in
\* order; runs, their number)
trimVideoCopyOrEncode(copy, encode) ==
    IF copy = "zero"
    THEN [ok |-> TRUE, runs |-> 1, tiers |-> << "copy" >>]
    ELSE [ok |-> (encode = "zero"), runs |-> 2,
          tiers |-> << "copy", "encode" >>]

\* the arguments a tier passes to ffmpeg: "-ss 0 -i inPath -t <duration>",
\* the codec options ("-c copy", or libx264 / aac with preset and pixel
\* format), outPath; rate: the frame-rate option, of which there is none
TrimArgs(tier, durationSeconds) ==
    [ss |-> 0, t |-> durationSeconds,
     codec |-> IF tier = "copy" THEN "copy" ELSE "libx264",
     rate |-> "none"]

\* what ffmpeg writes for these arguments from a clip of the given length
\* and frame rate: -t cuts the output at t seconds and never extends it;
\* without a frame-rate option the frame rate is that of the input
Ffmpeg(args, clip) ==
    [seconds |-> IF args.t < clip.seconds THEN args.t ELSE clip.seconds,
     fps |-> IF args.rate = "none" THEN clip.fps ELSE args.rate]

\* the tier whose output is at outPath when trimVideoCopyOrEncode returns
\* true
LastTier(copy, encode) ==
    LET t == trimVideoCopyOrEncode(copy, encode)
    IN  t.tiers[Len(t.tiers)]

(* ---------------------------------------------------------------------- *)
(* downloadToBrollDir                                                      *)
(* ---------------------------------------------------------------------- *)
\* an error thrown by downloadToBrollDir (or by the loop body of main):
\* kind "notFound" (local source missing), "download" (response not ok,
\* with its status), "network" (fetch rejected), "typeError"
\* (path.basename of a non-string), "trimFailed"; "none" for no error
MkError(kind, status) == [kind |-> kind, status |-> status]
NoError == MkError("none", 0)

\* ext.toLowerCase() on the extensions of the model
ToLowerCase(ext) == IF ext = ".MP4" THEN ".mp4" ELSE ext

\* TrimWanted that compares the extension as it is written
TrimWanted_CaseSensitive(ext, e) ==
    ext \in VideoExts /\ e.durIsNum /\ e.dur > 0

\* videoExts.has(ext.toLowerCase()) and desiredDuration && desiredDuration
\* > 0, desiredDuration being b.durationSeconds when that is a number
TrimWanted(ext, e) ==
    ToLowerCase(ext) \in VideoExts /\ e.durIsNum /\ e.dur > 0

\* UnlinkOriginal that leaves the pre-trim file where it is
UnlinkOriginal_Never(files, unique, unlinkOk) == files

\* await fsPromises.unlink(outPath).catch(() => { })
UnlinkOriginal(files, unique, unlinkOk) ==
    IF unlinkOk THEN files \ {unique} ELSE files

\* StageAndTrim that removes the pre-trim file whatever the trim returned
StageAndTrim_UnlinkAlways(unique, e, env) ==
    LET ext == unique.ext
        trimmed == [unique EXCEPT !.trim = TRUE]
        t == trimVideoCopyOrEncode(env.copy, env.encode)
    IN  IF TrimWanted(ext, e)
        THEN [threw |-> FALSE, staged |-> TRUE, name |-> trimmed,
              files |-> IF t.ok THEN {trimmed} ELSE {},
              runs |-> t.runs, error |-> NoError]
        ELSE [threw |-> FALSE, staged |-> TRUE, name |-> unique,
              files |-> {unique}, runs |-> 0, error |-> NoError]

\* the value returned for a file that was copied or written to brollDir
\* and then possibly trimmed; a failed trim throws nothing
StageAndTrim(unique, e, env) ==
    LET ext == unique.ext
        trimmed == [unique EXCEPT !.trim = TRUE]
        t == trimVideoCopyOrEncode(env.copy, env.encode)
    IN  IF TrimWanted(ext, e)
        THEN IF t.ok
             THEN [threw |-> FALSE, staged |-> TRUE, name |-> trimmed,
                   files |-> UnlinkOriginal({unique, trimmed}, unique,
                                            env.unlinkOk),
                   runs |-> t.runs, error |-> NoError]
             ELSE [threw |-> FALSE, staged |-> TRUE, name |-> unique,
                   files |-> {unique}, runs |-> t.runs, error |-> NoError]
        ELSE [threw |-> FALSE, staged |-> TRUE, name |-> unique,
              files |-> {unique}, runs |-> 0, error |-> NoError]

\* res.ok of a fetch response
ResOk(status) == status >= 200 /\ status <= 299

\* what downloadToBrollDir returns when it throws err
Thrown(err) ==
    [threw |-> TRUE, staged |-> FALSE, name |-> EmptyName, files |-> {},
     runs |-> 0, error |-> err]

\* downloadToBrollDir without the res.ok check: the body of any response is
\* saved
downloadToBrollDir_NoOkCheck(e, hint, env) ==
    LET src == e.src
        unique == MkName(hint, "broll", env.nonce, ExtOrJpg(src.name.ext), FALSE)
        asIs == [threw |-> FALSE, staged |-> FALSE, name |-> src.name,
                 files |-> {}, runs |-> 0, error |-> NoError]
    IN  CASE src.scheme \in {"empty", "nonstring"} -> asIs
          [] src.scheme = "file" ->
                IF ~ExistsSync(src) THEN Thrown(MkError("notFound", 0))
                ELSE StageAndTrim(unique, e, env)
          [] src.scheme = "bare" ->
                IF ExistsSync(src) THEN StageAndTrim(unique, e, env) ELSE asIs
          [] src.scheme = "http" ->
                IF env.status = 0 THEN Thrown(MkError("network", 0))
                ELSE StageAndTrim(unique, e, env)

\* e: the entry, hint: index in the list (the "broll-<i>" naming hint),
\* env: what the environment answers (nonce of the generated name, status
\* of the HTTP response or 0 when fetch rejects, ffmpeg results, whether
\* unlink succeeds).
\* Result: threw (with error), or the returned value: a path in brollDir
\* (staged = TRUE, name) or the src itself (staged = FALSE); files: what is
\* left in brollDir; runs: ffmpeg subprocesses spawned.
downloadToBrollDir(e, hint, env) ==
    LET src == e.src
        unique == MkName(hint, "broll", env.nonce, ExtOrJpg(src.name.ext), FALSE)
        asIs == [threw |-> FALSE, staged |-> FALSE, name |-> src.name,
                 files |-> {}, runs |-> 0, error |-> NoError]
    IN  CASE src.scheme \in {"empty", "nonstring"} -> asIs
          [] src.scheme = "file" ->
                IF ~ExistsSync(src) THEN Thrown(MkError("notFound", 0))
                ELSE StageAndTrim(unique, e, env)
          [] src.scheme = "bare" ->
                IF ExistsSync(src) THEN StageAndTrim(unique, e, env) ELSE asIs
          [] src.scheme = "http" ->
                IF env.status = 0 THEN Thrown(MkError("network", 0))
                ELSE IF ~ResOk(env.status)
                     THEN Thrown(MkError("download", env.status))
                     ELSE StageAndTrim(unique, e, env)

\* what fetch answers: 0 when it rejects, else the status of the response
FetchStatuses == {0, 200, 404}

Envs ==
    [nonce : 1..MaxNonce, status : FetchStatuses, copy : TierResults,
     encode : TierResults, unlinkOk : BOOLEAN]

(* ---------------------------------------------------------------------- *)
(* Inputs of a job                                                         *)
(* ---------------------------------------------------------------------- *)
\* The manifest file (CLI) or the captions form field (API):
\* kind "absent": no file / no field; "badjson": not valid JSON;
\* "array": a flat caption array; "scalar": valid JSON that is neither an
\* array nor an object; "object": an object, whose bRolls field is an
\* array (bRollsIsArray) holding bRolls, or is absent / not an array.
MkManifest(kind, isArr, list) ==
    [kind |-> kind, bRollsIsArray |-> isArr, bRolls |-> list,
     captionsIsArray |-> FALSE, captions |-> << >>]

\* m with a captions field: an array (isArr) holding caps, or a value that
\* is not an array; for a manifest that is itself an array, its elements
WithCaptions(m, isArr, caps) ==
    [m EXCEPT !.captionsIsArray = isArr, !.captions = caps]

CaptionLists == SeqsUpTo({"hi"}, MaxCaptions)

\* the captions field of an object: absent or not an array, or an array
CaptionFields ==
    { [isArr |-> FALSE, caps |-> << >>] }
    \cup { [isArr |-> TRUE, caps |-> c] : c \in CaptionLists }

\* Manifests with B-roll entries carry no captions field: captions and
\* B-roll entries are resolved independently of each other.
Manifests ==
    { MkManifest(k, FALSE, << >>) : k \in {"absent", "badjson", "scalar"} }
    \cup { WithCaptions(MkManifest("array", FALSE, << >>), TRUE, c) :
              c \in CaptionLists }
    \cup { WithCaptions(MkManifest("object", b, << >>), f.isArr, f.caps) :
              b \in BOOLEAN, f \in CaptionFields }
    \cup { MkManifest("object", TRUE, l) : l \in SeqsUpTo(Entries, MaxBRolls) }

\* The duration a caller supplies, as a string: absent (or empty), the
\* decimal numeral of n (with its sign), "Infinity", or a text that is not
\* a number.
NoDuration == [kind |-> "absent", n |-> 0]
Digits(n) == [kind |-> "digits", n |-> n]
InfinityString == [kind |-> "infinity", n |-> 0]
DurationStrings ==
    { NoDuration, [kind |-> "text", n |-> 0], InfinityString }
    \cup { Digits(n) : n \in (0 - MaxDuration)..MaxDuration }

\* the duration before the caller's input has been read
Unset == [kind |-> "unset", n |-> 0]

\* The bRolls field of the form the page sends: absent or an empty list,
\* or a list with an entry.
FormBRolls ==
    { << >>, << MkEntry(MkSrc("http", "clip", ".png"), FALSE, 0) >> }

\* which of <videoPath> <captionsPath> <stylePreset> <outPath> are truthy
Argvs ==
    [videoPath : BOOLEAN, captionsPath : BOOLEAN, stylePreset : BOOLEAN,
     outPath : BOOLEAN]

AllArgs ==
    [videoPath |-> TRUE, captionsPath |-> TRUE, stylePreset |-> TRUE,
     outPath |-> TRUE]

NoCalls == [bundle |-> 0, select |-> 0, render |-> 0]

(* ---------------------------------------------------------------------- *)
(* State                                                                   *)
(* ---------------------------------------------------------------------- *)
VARIABLES
    caller,          \* "cli": node render.mjs ...; "api": POST /api/render
    hasFile,         \* api: the form has a file field
    argv,            \* arguments render.mjs was started with
    form,            \* api: the captions and bRolls fields of the form
    manifest,        \* content of the manifest file / captions field
    videoExists,     \* fs.existsSync(videoPath), as found by startVideoServer
    pc,              \* position of main() in render.mjs
    bRolls,          \* main: bRolls after parsing
    processedBRolls, \* main: processedBRolls
    idx,             \* main: loop index i (1-based)
    staging,         \* the mkdtemp directory: "none", "exists", "removed"
    brollFiles,      \* names of the files in the staging directory
    ffmpegRuns,      \* ffmpeg subprocesses per entry index
    fetches,         \* per entry index: was a fetch sent, and what it answered
    entryErrors,     \* per entry index: the error caught by the loop body
    address,         \* server.address() of the listening server
    port,            \* main: the port returned by startVideoServer
    fileSize,        \* startVideoServer: stat.size of the primary video
    brollSize,       \* size of the files the /broll/ branch can reach
    request,         \* the request the server handled last
    reply,           \* the response head and body the handler produced
    stream,          \* the last read stream: "none", "open", "ended", "destroyed"
    crashed,         \* the process died of an uncaught exception
    server,          \* "none", "listening", "closed"
    closeCalls,      \* number of calls of server.close()
    engine,          \* engine call in flight: "none", "bundle", "select", "render"
    calls,           \* number of invocations of each engine call
    outFile,         \* the output file: "absent", "empty", "nonempty"
    pending,         \* error thrown by main and not yet reported ("none")
    exitCode,        \* exit code of render.mjs, -1 while it has not exited
    rpc,             \* position of POST
    spawnCalls,      \* number of render.mjs children spawned by POST
    tmpFiles,        \* api: temp files on disk
    unlinks,         \* api: the temp files whose unlink POST has issued
    response,        \* api: HTTP status sent, 0 while none
    captions,        \* main: captions after parsing
    durationField,   \* the duration the caller supplied (argument or form field)
    durationArg,     \* main: durationArg, the fifth argument of render.mjs
    inputProps,      \* main: inputProps handed to the engine
    engineProps,     \* the inputProps selectComposition and renderMedia got
    stageIn,         \* downloadToBrollDir: its arguments and environment
    stageOut,        \* downloadToBrollDir: what it returned and left behind
    now,             \* server of the app: Date.now()
    jobs             \* server of the app: the export requests being handled

vars ==
    << caller, hasFile, argv, form, manifest, videoExists, pc, bRolls,
       processedBRolls, idx, staging, brollFiles, ffmpegRuns, fetches,
       entryErrors, address, port, server, closeCalls, engine, calls,
       outFile, pending, exitCode, rpc, spawnCalls, tmpFiles, unlinks,
       response,
       fileSize, brollSize, request, reply, stream, crashed, captions,
       durationField, durationArg, inputProps, engineProps, stageIn,
       stageOut, now, jobs >>

inputVars == << caller, hasFile, argv, form >>
routeVars == << rpc, spawnCalls, tmpFiles, unlinks, response >>
brollVars ==
    << bRolls, processedBRolls, idx, brollFiles, ffmpegRuns, fetches,
       entryErrors >>
netVars == << address, port >>
httpVars == << fileSize, brollSize, request, reply, stream, crashed >>
propsVars == << captions, durationField, durationArg, inputProps >>
auxVars == << stageIn, stageOut, now, jobs >>
engineVars == << engine, calls, outFile, engineProps >>

\* no request handled yet.  (The sizes of the served files play no part in
\* main; they are chosen where requests are handled.)
Idle == [status |-> 0]

\* inputProps before main has built it
NoProps ==
    [built |-> FALSE, videoSrc |-> [host |-> "", port |-> 0, path |-> ""],
     captions |-> << >>, stylePreset |-> FALSE,
     durationInSeconds |-> [defined |-> FALSE, value |-> 0],
     bRolls |-> << >>]

\* neither selectComposition nor renderMedia has been called
NoEngineProps == [select |-> NoProps, render |-> NoProps]

\* no call of downloadToBrollDir under way, no export request received
NoStage == [called |-> FALSE]
NoJobs == << >>

\* the state outside main that a job of render.mjs does not touch
AuxIdle ==
    /\ stageIn = NoStage
    /\ stageOut = NoStage
    /\ now = 0
    /\ jobs = NoJobs

\* server.address() while nothing is bound
NoAddress == [host |-> "", port |-> 0]

\* the manifest before it has been read
Unread == MkManifest("unread", FALSE, << >>)

\* no form received
NoForm == [captions |-> Unread, bRolls |-> << >>]

Init ==
    /\ caller \in {"cli", "api"}
    /\ hasFile \in BOOLEAN
    /\ argv \in Argvs
    /\ caller = "cli" => hasFile
    /\ caller = "api" => argv = AllArgs
    /\ manifest = Unread
    /\ form = NoForm
    /\ videoExists = TRUE
    /\ pc = IF caller = "cli" THEN "args" ELSE "notStarted"
    /\ rpc = IF caller = "api" THEN "start" ELSE "none"
    /\ bRolls = << >>
    /\ processedBRolls = << >>
    /\ idx = 1
    /\ staging = "none"
    /\ brollFiles = {}
    /\ ffmpegRuns = << >>
    /\ fetches = << >>
    /\ entryErrors = << >>
    /\ address = NoAddress
    /\ port = 0
    /\ server = "none"
    /\ closeCalls = 0
    /\ engine = "none"
    /\ calls = NoCalls
    /\ outFile = "absent"
    /\ pending = "none"
    /\ exitCode = -1
    /\ spawnCalls = 0
    /\ tmpFiles = {}
    /\ unlinks = {}
    /\ response = 0
    /\ fileSize = 0
    /\ brollSize = 0
    /\ request = Idle
    /\ reply = Idle
    /\ stream = "none"
    /\ crashed = FALSE
    /\ captions = << >>
    /\ durationField = Unset
    /\ durationArg = Unset
    /\ inputProps = NoProps
    /\ engineProps = NoEngineProps
    /\ AuxIdle

(* ---------------------------------------------------------------------- *)
(* main() of render.mjs                                                    *)
(* ---------------------------------------------------------------------- *)
\* a throw of main outside its try/finally: main().catch runs next
Throw(err) ==
    /\ pending' = err
    /\ pc' = "fatal"

\* ArgsMissing that forgets the output path
ArgsMissing_NoOutPath(a) ==
    ~a.videoPath \/ ~a.captionsPath \/ ~a.stylePreset

\* if (!videoPath || !captionsPath || !stylePreset || !outPath) throw
ArgsMissing(a) ==
    ~a.videoPath \/ ~a.captionsPath \/ ~a.stylePreset \/ ~a.outPath

ValidateArgs ==
    /\ pc = "args"
    /\ IF ArgsMissing(argv)
       THEN Throw("usage")
       ELSE pc' = "manifest" /\ UNCHANGED pending
    /\ UNCHANGED << inputVars, netVars, httpVars, auxVars, propsVars, manifest, videoExists,
                    routeVars, brollVars,
                    engineVars, staging, server, closeCalls, exitCode >>

\* captions / bRolls extraction from the parsed manifest
ResolveBRolls(m) ==
    IF m.kind = "object" /\ m.bRollsIsArray THEN m.bRolls ELSE << >>

\* ResolveCaptions that only looks for a captions field
ResolveCaptions_FieldOnly(m) ==
    IF m.kind = "object" /\ m.captionsIsArray THEN m.captions ELSE << >>

\* Array.isArray(captionsData) ? captionsData
\*   : object ? (Array.isArray(captionsData.captions) ? ... : []) : []
ResolveCaptions(m) ==
    CASE m.kind = "array" -> m.captions
      [] m.kind = "object" /\ m.captionsIsArray -> m.captions
      [] OTHER -> << >>

\* a JavaScript value is truthy: for a number, neither 0 nor NaN; for a
\* string, not empty
TruthyNumber(n) == n # 0 /\ n # NaN
TruthyString(str) == str.kind # "absent"

\* Number(str): 0 for the empty string, NaN for a text without number
Number(str) ==
    CASE str.kind = "digits" -> str.n
      [] str.kind = "infinity" -> Infinity
      [] str.kind = "text" -> NaN
      [] OTHER -> 0

\* const durationSecondsFromCli = durationArg ? Number(durationArg) : 0
DurationSecondsFromCli(arg) ==
    IF TruthyString(arg) THEN Number(arg) ELSE 0

\* DurationProp that forwards 0 as a duration
DurationProp_ZeroKept(n) ==
    IF n # NaN THEN [defined |-> TRUE, value |-> n]
    ELSE [defined |-> FALSE, value |-> 0]

\* durationInSeconds: durationSecondsFromCli || undefined
DurationProp(n) ==
    IF TruthyNumber(n) THEN [defined |-> TRUE, value |-> n]
    ELSE [defined |-> FALSE, value |-> 0]

\* RemotionRoot: the composition lasts 60 seconds by default
DefaultDurationInSeconds == 60

\* RemotionRoot: inputProps?.durationInSeconds ?? 60
CompositionSeconds(props) ==
    IF props.durationInSeconds.defined
    THEN props.durationInSeconds.value
    ELSE DefaultDurationInSeconds

\* export const fps = 30
Fps == 30

\* a * b for b > 0 in JavaScript numbers
Times(a, b) ==
    CASE a = NaN -> NaN
      [] a = Infinity -> Infinity
      [] OTHER -> a * b

\* Math.round: the durations of the model are whole seconds, so the
\* product with fps is a whole number, which Math.round returns as it is;
\* Math.round(Infinity) is Infinity
MathRound(x) == x

\* Math.max(a, b) for a that is a number of the model
MathMax(a, b) ==
    CASE b = NaN -> NaN
      [] b = Infinity -> Infinity
      [] OTHER -> IF a >= b THEN a ELSE b

\* Number.isInteger
IsInteger(x) == x # NaN /\ x # Infinity

\* RemotionRoot: durationInFrames =
\*   Math.max(1, Math.round(durationInSeconds * fps))
DurationInFrames(props) ==
    MathMax(1, MathRound(Times(CompositionSeconds(props), Fps)))

\* ManifestError that swallows the JSON.parse error
ManifestError_ParseSwallowed(m) ==
    IF m.kind = "absent" THEN "noManifest" ELSE "none"

\* what main throws for the manifest file: the existsSync check, then the
\* rethrown JSON.parse error; "none" when it parses
ManifestError(m) ==
    CASE m.kind = "absent" -> "noManifest"
      [] m.kind = "badjson" -> "parse"
      [] OTHER -> "none"

\* durationArg ? Number(durationArg) : 0, existsSync(captionsPath),
\* readFile, JSON.parse, captions/bRolls split.
\* From the CLI the file is whatever the caller left there; from the API
\* it is the file POST wrote.  The duration argument is read here; it is
\* varied over the manifests without B-roll entries, with which it does
\* not interact.
ReadManifest ==
    /\ pc = "manifest"
    /\ \E m \in Manifests, d \in DurationStrings :
          /\ caller = "api" => (m = manifest /\ d = durationArg)
          /\ caller = "cli" =>
                (ResolveBRolls(m) # << >> => d = NoDuration)
          /\ manifest' = m
          /\ durationArg' = d
          /\ durationField' = IF caller = "cli" THEN d ELSE durationField
          /\ IF ManifestError(m) # "none"
             THEN Throw(ManifestError(m)) /\ UNCHANGED << bRolls, captions >>
             ELSE /\ bRolls' = ResolveBRolls(m)
                  /\ captions' = ResolveCaptions(m)
                  /\ pc' = "mkdtemp"
                  /\ UNCHANGED pending
    /\ UNCHANGED << inputVars, netVars, httpVars, auxVars, inputProps,
                    videoExists, routeVars,
                    processedBRolls, idx, brollFiles, ffmpegRuns, fetches,
                    entryErrors, engineVars, staging, server, closeCalls,
                    exitCode >>

\* const brollDir = await fsPromises.mkdtemp(...)
Mkdtemp ==
    /\ pc = "mkdtemp"
    /\ \E ok \in BOOLEAN :
          IF ok
          THEN staging' = "exists" /\ pc' = "startServer" /\ UNCHANGED pending
          ELSE Throw("mkdtemp") /\ UNCHANGED staging
    /\ UNCHANGED << inputVars, netVars, httpVars, auxVars, propsVars, manifest, videoExists,
                    routeVars, brollVars,
                    engineVars, server, closeCalls, exitCode >>

\* await startVideoServer(videoPath, brollDir): throws when the video is
\* missing; rejects on a listen error; resolves in the listen callback.
\* (server.address() of a listening TCP server is an object, so the
\* "Could not determine server address" branch is not taken.)
\* the ports the operating system may assign to listen(0, ...)
Ports == 1..MaxPort

\* server.listen(0, "127.0.0.1", ...): the interface the server binds
ListenHost == "127.0.0.1"

\* ResolvedPort that does not ask the server for its port
ResolvedPort_First(addr) == 1

\* const port = address.port, used for videoUrl and returned to main
ResolvedPort(addr) == addr.port

\* const videoUrl = `http://127.0.0.1:${port}/video`
VideoUrl(p) == [host |-> ListenHost, port |-> p, path |-> "/video"]

StartVideoServer ==
    /\ pc = "startServer"
    /\ \E exists \in BOOLEAN, listenOk \in BOOLEAN, p \in Ports :
          /\ caller = "api" => exists
          /\ videoExists' = exists
          /\ IF ~exists
             THEN Throw("videoNotFound") /\ UNCHANGED << server, netVars >>
             ELSE IF ~listenOk
                  THEN Throw("listen") /\ UNCHANGED << server, netVars >>
                  ELSE /\ server' = "listening"
                       /\ address' = [host |-> ListenHost, port |-> p]
                       /\ port' = ResolvedPort(address')
                       /\ pc' = "broll"
                       /\ UNCHANGED pending
    /\ UNCHANGED << inputVars, httpVars, auxVars, propsVars, manifest, routeVars, brollVars,
                    engineVars, staging, closeCalls, exitCode >>

(* ---------------------------------------------------------------------- *)
(* main(): the B-roll loop                                                 *)
(* ---------------------------------------------------------------------- *)
\* encodeURIComponent on the strings of the model: a space becomes %20 and
\* a slash %2F; the other strings consist of unreserved characters
\* (letters, digits, "-", ".") and are left as they are
EncodeURIComponent(str) ==
    CASE str = "no file" -> "no%20file"
      [] str = "../secret" -> "..%2Fsecret"
      [] OTHER -> str

\* encodeURIComponent of a file name: "broll-<i>-<ts>-<rand>" and "trim-"
\* are unreserved characters; the stem and the extension come from the
\* source
EncodeName(n) ==
    [n EXCEPT !.stem = EncodeURIComponent(n.stem),
              !.ext = EncodeURIComponent(n.ext)]

\* `http://127.0.0.1:${port}/broll/${encodeURIComponent(filename)}`
PublicUrl(p, filename) ==
    [scheme |-> "public", port |-> p, name |-> EncodeName(filename)]

\* Rewritten that starts every rewritten entry at second 0
Rewritten_ResetStart(b, publicUrl, localPath) ==
    [f \in DOMAIN b \cup {"src", "localPath"} |->
        CASE f = "src" -> publicUrl
          [] f = "localPath" -> localPath
          [] f = "startSeconds" -> 0
          [] OTHER -> b[f]]

\* { ...b, src: publicUrl, _localPath: localPath }: every field of b, src
\* replaced, _localPath added
Rewritten(b, publicUrl, localPath) ==
    [f \in DOMAIN b \cup {"src", "localPath"} |->
        CASE f = "src" -> publicUrl
          [] f = "localPath" -> localPath
          [] OTHER -> b[f]]

\* ProcessEntry that gives every entry the same naming hint
ProcessEntry_SameHint(b, i, env) ==
    LET r == downloadToBrollDir(b, 1, env)
    IN  IF r.threw \/ b.src.scheme = "nonstring"
        THEN [entry |-> b, files |-> r.files, runs |-> r.runs,
              error |-> IF r.threw THEN r.error ELSE MkError("typeError", 0)]
        ELSE [entry |-> Rewritten(b, PublicUrl(port, r.name),
                                  [staged |-> r.staged, name |-> r.name]),
              files |-> r.files, runs |-> r.runs, error |-> r.error]

\* One iteration of the loop body for entry b at index i: the entry that
\* is pushed to processedBRolls, the files left in brollDir and the ffmpeg
\* subprocesses run.  path.basename throws a TypeError for a value that is
\* not a string; the catch pushes b itself.
ProcessEntry(b, i, env) ==
    LET r == downloadToBrollDir(b, i, env)
    IN  IF r.threw \/ b.src.scheme = "nonstring"
        THEN [entry |-> b, files |-> r.files, runs |-> r.runs,
              error |-> IF r.threw THEN r.error ELSE MkError("typeError", 0)]
        ELSE [entry |-> Rewritten(b, PublicUrl(port, r.name),
                                  [staged |-> r.staged, name |-> r.name]),
              files |-> r.files, runs |-> r.runs, error |-> r.error]

PushEntry(env) ==
    LET p == ProcessEntry(bRolls[idx], idx, env)
    IN  /\ processedBRolls' = Append(processedBRolls, p.entry)
        /\ brollFiles' = brollFiles \cup p.files
        /\ ffmpegRuns' = Append(ffmpegRuns, p.runs)
        /\ fetches' = Append(fetches,
                             IF bRolls[idx].src.scheme = "http"
                             THEN [sent |-> TRUE, status |-> env.status]
                             ELSE [sent |-> FALSE, status |-> 0])
        /\ entryErrors' = Append(entryErrors, p.error)
        /\ idx' = idx + 1

\* an iteration for an entry that needs no network
BRollLocal ==
    /\ pc = "broll"
    /\ idx <= Len(bRolls)
    /\ bRolls[idx].src.scheme # "http"
    /\ \E env \in Envs : PushEntry(env)
    /\ UNCHANGED << inputVars, netVars, httpVars, auxVars, propsVars, manifest, videoExists, routeVars, bRolls, pc,
                    engineVars, staging, server, closeCalls, pending,
                    exitCode >>

\* const res = await fetch(src): the request is sent
BRollFetchCall ==
    /\ pc = "broll"
    /\ idx <= Len(bRolls)
    /\ bRolls[idx].src.scheme = "http"
    /\ pc' = "fetch"
    /\ UNCHANGED << inputVars, netVars, httpVars, auxVars, propsVars, manifest, videoExists,
                    routeVars, brollVars,
                    engineVars, staging, server, closeCalls, pending,
                    exitCode >>

\* the fetch settles (response ok, response not ok, or rejection) and the
\* rest of the iteration runs
BRollFetchReturn ==
    /\ pc = "fetch"
    /\ \E env \in Envs : PushEntry(env)
    /\ pc' = "broll"
    /\ UNCHANGED << inputVars, netVars, httpVars, auxVars, propsVars, manifest, videoExists, routeVars, bRolls,
                    engineVars, staging, server, closeCalls, pending,
                    exitCode >>

\* LoopEnd that goes on to the try block without building inputProps
LoopEnd_ToBundle ==
    /\ pc = "broll"
    /\ idx > Len(bRolls)
    /\ pc' = "bundle"
    /\ UNCHANGED << inputVars, netVars, httpVars, auxVars, propsVars,
                    manifest, videoExists, routeVars, brollVars,
                    engineVars, staging, server, closeCalls, pending,
                    exitCode >>

\* the loop is over (or bRolls is empty): processedBRolls is complete
LoopEnd ==
    /\ pc = "broll"
    /\ idx > Len(bRolls)
    /\ pc' = "staged"
    /\ UNCHANGED << inputVars, netVars, httpVars, auxVars, propsVars,
                    manifest, videoExists, routeVars, brollVars,
                    engineVars, staging, server, closeCalls, pending,
                    exitCode >>

\* MkInputProps that leaves the duration out
MkInputProps_NoDuration(videoUrl, caps, preset, seconds, processed) ==
    [built |-> TRUE, videoSrc |-> videoUrl, captions |-> caps,
     stylePreset |-> preset,
     durationInSeconds |-> [defined |-> FALSE, value |-> 0],
     bRolls |-> processed]

\* const inputProps = { videoSrc: videoUrl, captions, stylePreset,
\*   durationInSeconds: durationSecondsFromCli || undefined,
\*   bRolls: processedBRolls }
MkInputProps(videoUrl, caps, preset, seconds, processed) ==
    [built |-> TRUE, videoSrc |-> videoUrl, captions |-> caps,
     stylePreset |-> preset, durationInSeconds |-> DurationProp(seconds),
     bRolls |-> processed]

\* BuildInputProps that closes the server once staging is over
BuildInputProps_CloseEarly ==
    /\ pc = "staged"
    /\ pc' = "bundle"
    /\ inputProps' =
          MkInputProps(VideoUrl(port), captions, argv.stylePreset,
                       DurationSecondsFromCli(durationArg), processedBRolls)
    /\ server' = "closed"
    /\ UNCHANGED << inputVars, netVars, httpVars, auxVars, captions,
                    durationField, durationArg, manifest, videoExists,
                    routeVars, brollVars,
                    engineVars, staging, closeCalls, pending, exitCode >>

\* inputProps is built and the try block is entered
BuildInputProps ==
    /\ pc = "staged"
    /\ pc' = "bundle"
    /\ inputProps' =
          MkInputProps(VideoUrl(port), captions, argv.stylePreset,
                       DurationSecondsFromCli(durationArg), processedBRolls)
    /\ UNCHANGED << inputVars, netVars, httpVars, auxVars, captions,
                    durationField, durationArg, manifest, videoExists,
                    routeVars, brollVars,
                    engineVars, staging, server, closeCalls, pending,
                    exitCode >>

(* ---------------------------------------------------------------------- *)
(* main(): try { bundle; selectComposition; renderMedia; stat } finally    *)
(* ---------------------------------------------------------------------- *)
\* ThrowInTry without the finally block: the error goes straight to
\* main().catch
ThrowInTry_NoFinally(err) ==
    /\ pending' = err
    /\ pc' = "fatal"

\* a throw inside the try block: the finally block runs next
ThrowInTry(err) ==
    /\ pending' = err
    /\ pc' = "finally"

EngineCall(at, name, wait) ==
    /\ pc = at
    /\ engine' = name
    /\ calls' = [calls EXCEPT ![name] = @ + 1]
    /\ engineProps' = IF name \in DOMAIN engineProps
                      THEN [engineProps EXCEPT ![name] = inputProps]
                      ELSE engineProps
    /\ pc' = wait
    /\ UNCHANGED << inputVars, netVars, httpVars, auxVars, propsVars, manifest, videoExists,
                    routeVars, brollVars,
                    outFile, staging, server, closeCalls, pending, exitCode >>

\* bundle({ entryPoint, webpackOverride })
BundleCall == EngineCall("bundle", "bundle", "bundleWait")

BundleReturn ==
    /\ pc = "bundleWait"
    /\ engine' = "none"
    /\ \E ok \in BOOLEAN :
          IF ok THEN pc' = "select" /\ UNCHANGED pending
                ELSE ThrowInTry("engine")
    /\ UNCHANGED << inputVars, netVars, httpVars, auxVars, propsVars, manifest, videoExists,
                    routeVars, brollVars,
                    calls, outFile, engineProps, staging, server, closeCalls, exitCode >>

SelectCall == EngineCall("select", "select", "selectWait")

SelectReturn ==
    /\ pc = "selectWait"
    /\ engine' = "none"
    /\ \E ok \in BOOLEAN :
          IF ok THEN pc' = "render" /\ UNCHANGED pending
                ELSE ThrowInTry("engine")
    /\ UNCHANGED << inputVars, netVars, httpVars, auxVars, propsVars, manifest, videoExists,
                    routeVars, brollVars,
                    calls, outFile, engineProps, staging, server, closeCalls, exitCode >>

RenderCall == EngineCall("render", "render", "renderWait")

\* renderMedia resolves (the engine has left an output file, or not) or
\* rejects with an engine error
RenderReturn ==
    /\ pc = "renderWait"
    /\ engine' = "none"
    /\ \E ok \in BOOLEAN, f \in {"absent", "empty", "nonempty"} :
          IF ok THEN pc' = "stat" /\ outFile' = f /\ UNCHANGED pending
                ELSE ThrowInTry("engine") /\ UNCHANGED outFile
    /\ UNCHANGED << inputVars, netVars, httpVars, auxVars, propsVars, manifest, videoExists,
                    routeVars, brollVars,
                    calls, engineProps, staging, server, closeCalls, exitCode >>

\* RenderTimeout that re-attempts the render
RenderTimeout_Retry ==
    /\ pc = "renderWait"
    /\ engine' = "none"
    /\ pc' = "render"
    /\ UNCHANGED << inputVars, netVars, httpVars, auxVars, propsVars, manifest, videoExists,
                    routeVars, brollVars,
                    calls, outFile, engineProps, staging, server, closeCalls, pending,
                    exitCode >>

\* timeoutInMilliseconds: 2 * 60 * 1000 expires: renderMedia rejects
RenderTimeout ==
    /\ pc = "renderWait"
    /\ engine' = "none"
    /\ ThrowInTry("timeout")
    /\ UNCHANGED << inputVars, netVars, httpVars, auxVars, propsVars, manifest, videoExists,
                    routeVars, brollVars,
                    calls, outFile, engineProps, staging, server, closeCalls, exitCode >>

\* try { stat = await fsPromises.stat(outPath); log(size) } catch { throw }
StatOutput ==
    /\ pc = "stat"
    /\ IF outFile = "absent"
       THEN ThrowInTry("stat")
       ELSE pc' = "finally" /\ UNCHANGED pending
    /\ UNCHANGED << inputVars, netVars, httpVars, auxVars, propsVars, manifest, videoExists,
                    routeVars, brollVars,
                    engineVars, staging, server, closeCalls, exitCode >>

\* CloseServer in which close() of a server that is not listening throws
\* and nothing catches it
CloseServer_NotRunningThrows(s) ==
    IF s = "listening"
    THEN [server |-> "closed", threw |-> FALSE]
    ELSE [server |-> s, threw |-> TRUE]

\* try { server.close() } catch (e) { /* ignore */ }: close() stops the
\* server from accepting connections; on a server that is not listening
\* there is nothing to stop, and whatever close() throws is swallowed
CloseServer(s) == [server |-> "closed", threw |-> FALSE]

\* finally { try { server.close() } catch {} }; the removal of brollDir is
\* commented out in the source
Finally ==
    /\ pc = "finally"
    /\ server' = CloseServer(server).server
    /\ closeCalls' = closeCalls + 1
    /\ pending' = IF CloseServer(server).threw THEN "close" ELSE pending
    /\ pc' = IF pending' = "none" THEN "returned" ELSE "fatal"
    /\ UNCHANGED << inputVars, netVars, httpVars, auxVars, propsVars,
                    manifest, videoExists, routeVars, brollVars,
                    engineVars, staging, exitCode >>

\* main().catch(err => { ...; process.exit(1) })
FatalHandler ==
    /\ pc = "fatal"
    /\ exitCode' = 1
    /\ pc' = "exited"
    /\ UNCHANGED << inputVars, netVars, httpVars, auxVars, propsVars, manifest, videoExists,
                    routeVars, brollVars,
                    engineVars, staging, server, closeCalls, pending >>

\* main() resolved: nothing keeps the event loop alive, node exits with 0
ProcessEnd ==
    /\ pc = "returned"
    /\ exitCode' = 0
    /\ pc' = "exited"
    /\ UNCHANGED << inputVars, netVars, httpVars, auxVars, propsVars, manifest, videoExists,
                    routeVars, brollVars,
                    engineVars, staging, server, closeCalls, pending >>

(* ---------------------------------------------------------------------- *)
(* POST /api/render                                                        *)
(* ---------------------------------------------------------------------- *)
mainVars ==
    << pc, bRolls, processedBRolls, idx, staging, brollFiles, ffmpegRuns,
       fetches, entryErrors, server, closeCalls, engine, calls, outFile,
       engineProps, pending, exitCode, videoExists >>

Respond(status) ==
    /\ response' = status
    /\ rpc' = "done"

\* String(n) for a number that is not NaN
String(n) == IF n = Infinity THEN InfinityString ELSE Digits(n)

\* POST: durationInSeconds = durationStr ? Number(durationStr) : 0
RouteDuration(field) ==
    IF TruthyString(field) THEN Number(field) ELSE 0

\* runRenderScript: String(durationInSeconds || 0)
RouteDurationArg(field) ==
    String(IF TruthyNumber(RouteDuration(field)) THEN RouteDuration(field)
           ELSE 0)

\* FormStatus without the check of the captions field
FormStatus_NoCaptionsCheck(file, m) ==
    CASE ~file -> 400
      [] file /\ m.kind = "badjson" -> 500
      [] OTHER -> 0

\* if (!file) 400; if (!captionsStr) 400; JSON.parse(captionsStr), whose
\* throw is answered 500 by the catch; 0: the handler goes on
FormStatus(file, m) ==
    CASE ~file -> 400
      [] file /\ m.kind = "absent" -> 400
      [] file /\ m.kind = "badjson" -> 500
      [] OTHER -> 0

\* WrittenManifest that puts the bRolls field of the form next to a flat
\* caption array
WrittenManifest_WithBRolls(captionsField, bRollsField) ==
    IF captionsField.kind = "array" /\ bRollsField # << >>
    THEN [captionsField EXCEPT !.kind = "object", !.captionsIsArray = TRUE,
                               !.bRollsIsArray = TRUE, !.bRolls = bRollsField]
    ELSE captionsField

\* JSON.stringify(JSON.parse(captionsStr)): the text of the JSON value of
\* the captions field (the manifests of the model are JSON values, which
\* the round trip keeps); no other field of the form is read
WrittenManifest(captionsField, bRollsField) == captionsField

\* formData, the duration field, the two 400 checks and
\* JSON.parse(captionsStr); a throw is caught by the handler's catch, which
\* answers 500
RouteValidate ==
    /\ rpc = "start"
    /\ \E m \in Manifests, d \in DurationStrings, b \in FormBRolls :
          /\ ResolveBRolls(m) # << >> => (d = NoDuration /\ b = << >>)
          /\ form' = [captions |-> m, bRolls |-> b]
          /\ manifest' = m
          /\ durationField' = d
          /\ IF FormStatus(hasFile, m) # 0
             THEN Respond(FormStatus(hasFile, m))
             ELSE rpc' = "write" /\ UNCHANGED response
    /\ UNCHANGED << caller, hasFile, argv, netVars, httpVars, auxVars, captions,
                    durationArg, inputProps, mainVars, spawnCalls, tmpFiles,
                    unlinks >>

\* writeFile(videoPath), writeFile(captionsPath)
RouteWriteFiles ==
    /\ rpc = "write"
    /\ \E written \in {{}, {"video"}, {"video", "captions"}} :
          /\ tmpFiles' = written
          /\ manifest' = IF "captions" \in written
                         THEN WrittenManifest(form.captions, form.bRolls)
                         ELSE manifest
          /\ IF written = {"video", "captions"}
             THEN rpc' = "spawn" /\ UNCHANGED response
             ELSE Respond(500)
    /\ UNCHANGED << inputVars, netVars, httpVars, auxVars, propsVars, mainVars, spawnCalls,
                    unlinks >>

\* runRenderScript: spawn(node, [render.mjs, videoPath, captionsPath,
\* stylePreset, outPath, duration])
RouteSpawn ==
    /\ rpc = "spawn"
    /\ spawnCalls' = spawnCalls + 1
    /\ pc' = "args"
    /\ durationArg' = RouteDurationArg(durationField)
    /\ rpc' = "await"
    /\ UNCHANGED << inputVars, netVars, httpVars, auxVars, captions,
                    durationField, inputProps, manifest, videoExists, brollVars, engineVars,
                    staging, server, closeCalls, pending, exitCode, tmpFiles, unlinks,
                    response >>

\* The child cannot be started (spawn fails with EAGAIN, ENOMEM, EACCES):
\* the child emits "error".  runRenderScript listens to "close" and to the
\* data of stdout and stderr only, so the event has no listener and the
\* error is thrown as an uncaught exception of the app, out of the
\* callback that would have emitted "close": the app dies, or it survives
\* with the promise pending.  Neither resolve nor reject is called.
RouteSpawnError ==
    /\ rpc = "spawn"
    /\ spawnCalls' = spawnCalls + 1
    /\ rpc' = "spawnError"
    /\ UNCHANGED << inputVars, netVars, httpVars, auxVars, propsVars,
                    manifest, mainVars, tmpFiles, unlinks, response >>

\* child.on("close", code => code === 0 ? resolve() : reject(...))
RouteChildClose ==
    /\ rpc = "await"
    /\ pc = "exited"
    /\ IF exitCode = 0
       THEN rpc' = "read" /\ UNCHANGED response
       ELSE Respond(500)
    /\ UNCHANGED << inputVars, netVars, httpVars, auxVars, propsVars, manifest, mainVars, spawnCalls, tmpFiles,
                    unlinks >>

\* the temp paths of a request: videoPath, captionsPath, outPath
TmpPaths == {"video", "captions", "output"}

\* readFile(outPath), whose rejection is answered 500 by the catch; else
\* the three unlinks, issued and not awaited, each with its rejection
\* swallowed, and the 200 response
RouteReadOutput ==
    /\ rpc = "read"
    /\ IF outFile = "absent"
       THEN Respond(500) /\ UNCHANGED << tmpFiles, unlinks >>
       ELSE /\ Respond(200)
            /\ unlinks' = TmpPaths
            /\ \E left \in SUBSET tmpFiles : tmpFiles' = left
    /\ UNCHANGED << inputVars, netVars, httpVars, auxVars, propsVars, manifest, mainVars, spawnCalls >>

(* ---------------------------------------------------------------------- *)
(* startVideoServer: the request handler                                   *)
(* ---------------------------------------------------------------------- *)
\* decodeURIComponent on the strings of the model; a malformed escape
\* sequence throws a URIError
DecodeURIComponent(str) ==
    CASE str = "no%20file" -> [ok |-> TRUE, value |-> "no file"]
      [] str = "..%2Fsecret" -> [ok |-> TRUE, value |-> "../secret"]
      [] str = "%E0%A4%A" -> [ok |-> FALSE, value |-> ""]
      [] OTHER -> [ok |-> TRUE, value |-> str]

\* decodeURIComponent(pathname.replace("/broll/", ""))
DecodeName(raw) ==
    LET st == DecodeURIComponent(raw.stem)
        ex == DecodeURIComponent(raw.ext)
    IN  [ok |-> st.ok /\ ex.ok,
         name |-> [raw EXCEPT !.stem = st.value, !.ext = ex.value]]

\* files next to the staging directory, in os.tmpdir()
OutsideFiles ==
    { MkName(0, "../secret", 0, e, FALSE) : e \in {".png", ".mp4"} }

\* path.join(brollDir, name): the staging directory itself for the empty
\* name, a path outside it for a name that climbs with "../", else a path
\* inside it
JoinBrollDir(name) ==
    CASE name = EmptyName -> "stagingDir"
      [] name.stem = "../secret" -> "outside"
      [] OTHER -> "staging"

\* fs.existsSync(filePath)
FileExists(name, files) ==
    CASE JoinBrollDir(name) = "stagingDir" -> TRUE
      [] JoinBrollDir(name) = "outside" -> name \in OutsideFiles
      [] OTHER -> name \in files

\* the Range header: absent, or "bytes=<start>-<end>" as split and parsed
\* by the handler: start = parseInt(parts[0]) (NaN for "bytes=-5"),
\* hasEnd = parts[1] is a non-empty string, end = parseInt(parts[1])
NoRange == [present |-> FALSE, start |-> 0, hasEnd |-> FALSE, end |-> 0]

Ranges ==
    {NoRange}
    \cup { [present |-> TRUE, start |-> st, hasEnd |-> FALSE, end |-> 0] :
             st \in {NaN} \cup 0..MaxFileSize }
    \cup { [present |-> TRUE, start |-> st, hasEnd |-> TRUE, end |-> en] :
             st \in {NaN} \cup 0..MaxFileSize, en \in {NaN} \cup 0..MaxFileSize }

\* a request: hasUrl (req.url is set), the class of the pathname ("video":
\* exactly /video; "broll": starts with /broll/; "other"), the rest of the
\* pathname after /broll/ as sent, and the Range header
MkRequest(class, raw, range) ==
    [hasUrl |-> TRUE, class |-> class, raw |-> raw, range |-> range]

\* what is piped to the response: nothing, a text, or a read stream on a
\* file ("video": the primary video; "staging", "stagingDir", "outside":
\* where path.join(brollDir, name) points) from offset first to last;
\* guarded: the stream has an "error" listener
NoBody ==
    [kind |-> "none", where |-> "", name |-> EmptyName, first |-> 0,
     last |-> 0, guarded |-> FALSE]

TextBody == [NoBody EXCEPT !.kind = "text"]

FileBody(where, name, first, last, guarded) ==
    [kind |-> "file", where |-> where, name |-> name, first |-> first,
     last |-> last, guarded |-> guarded]

\* a response: status, Access-Control-Allow-Origin: *, Accept-Ranges:
\* bytes, Content-Length (when hasLength), Content-Range: bytes
\* rangeStart-rangeEnd/rangeTotal (when hasRange), Content-Type, body
MkResponse(status, acao, acceptRanges, hasLength, length, type, body) ==
    [status |-> status, acao |-> acao, acceptRanges |-> acceptRanges,
     hasLength |-> hasLength, length |-> length, hasRange |-> FALSE,
     rangeStart |-> 0, rangeEnd |-> 0, rangeTotal |-> 0, type |-> type,
     body |-> body]

\* res.statusCode = <status>; res.end(<text>) with no header set before
PlainResponse(status) == MkResponse(status, FALSE, FALSE, FALSE, 0, "", TextBody)

\* end - start + 1 in JavaScript numbers
ChunkSize_OffByOne(start, end) ==
    IF start = NaN \/ end = NaN THEN NaN ELSE end - start

\* const chunkSize = end - start + 1
ChunkSize(start, end) ==
    IF start = NaN \/ end = NaN THEN NaN ELSE end - start + 1

\* fs.createReadStream(path, { start, end }) throws ERR_OUT_OF_RANGE for a
\* start or end that is not an integer >= 0 and for start > end
StreamOptionsThrow(start, end) ==
    start = NaN \/ end = NaN \/ end < 0 \/ start > end

\* the 200 answer with the whole file, without Content-Length
WholeFile_NoLength(where, name, size, acao) ==
    MkResponse(200, acao, TRUE, FALSE, 0, "video/mp4",
               FileBody(where, name, 0, size - 1, FALSE))

\* no Range header: writeHead(200, Content-Length, Content-Type,
\* Accept-Ranges) and createReadStream(file).pipe(res)
WholeFile(where, name, size, acao) ==
    MkResponse(200, acao, TRUE, TRUE, size, "video/mp4",
               FileBody(where, name, 0, size - 1, FALSE))

\* Range header: start, end, chunkSize, writeHead(206, ...), then the read
\* stream of the span with its "error" listener.  When createReadStream
\* throws, the catch of the handler ends the response with a text; the
\* 206 head written by writeHead is what goes out.
PartialFile(where, name, size, range, acao) ==
    LET start == range.start
        end == IF range.hasEnd THEN range.end ELSE size - 1
        head == [MkResponse(206, acao, TRUE, TRUE, ChunkSize(start, end),
                            "video/mp4", NoBody)
                   EXCEPT !.hasRange = TRUE, !.rangeStart = start,
                          !.rangeEnd = end, !.rangeTotal = size]
    IN  IF StreamOptionsThrow(start, end)
        THEN [head EXCEPT !.body = TextBody]
        ELSE [head EXCEPT !.body = FileBody(where, name, start, end, TRUE)]

\* the /video branch
ServeVideo(req, size) ==
    IF ~req.range.present
    THEN WholeFile("video", EmptyName, size, TRUE)
    ELSE PartialFile("video", EmptyName, size, req.range, TRUE)

\* image MIME type by extension
ImageMime(ext) ==
    CASE ext = ".png" -> "image/png"
      [] ext = ".svg" -> "image/svg+xml"
      [] ext = ".webp" -> "image/webp"
      [] OTHER -> "image/jpeg"

\* the /broll/<name> branch; files: the content of the staging directory,
\* size: the size of the file that is served
ServeBroll(req, files, size) ==
    LET d == DecodeName(req.raw)
        where == JoinBrollDir(d.name)
    IN  IF ~d.ok THEN PlainResponse(500)
        ELSE IF ~FileExists(d.name, files) THEN PlainResponse(404)
        ELSE IF where # "stagingDir" /\ d.name.ext \in VideoExts
             THEN IF ~req.range.present
                  THEN WholeFile(where, d.name, size, TRUE)
                  ELSE PartialFile(where, d.name, size, req.range, TRUE)
             ELSE MkResponse(200, TRUE, FALSE, FALSE, 0,
                             ImageMime(IF where = "stagingDir" THEN ""
                                       ELSE d.name.ext),
                             FileBody(where, d.name, 0, size - 1, FALSE))

\* http.createServer((req, res) => { ... })
HandleRequest(req, videoSize, files, size) ==
    IF ~req.hasUrl THEN PlainResponse(400)
    ELSE CASE req.class = "video" -> ServeVideo(req, videoSize)
           [] req.class = "broll" -> ServeBroll(req, files, size)
           [] OTHER -> PlainResponse(404)

(* ---------------------------------------------------------------------- *)
(* The server at work: requests while renderMedia is in flight             *)
(* ---------------------------------------------------------------------- *)
\* names a client may ask for under /broll/: the encoded names of the
\* staged files, a name that is not staged, the empty name, the basename
\* of a missing source, names that climb out of the staging directory, and
\* a malformed escape sequence
RequestNames(files) ==
    { EncodeName(f) : f \in files }
    \cup { MkName(1, "broll", 0, ".mp4", FALSE),
           EmptyName,
           EncodeName(MkName(0, "no file", 0, ".png", FALSE)),
           MkName(0, "%E0%A4%A", 0, ".png", FALSE) }
    \cup { EncodeName(f) : f \in OutsideFiles }

Requests(files) ==
    { MkRequest("video", EmptyName, r) : r \in Ranges }
    \cup { MkRequest("other", EmptyName, NoRange) }
    \cup { MkRequest("broll", n, r) : n \in RequestNames(files), r \in Ranges }

\* A job of the command line with at most one B-roll entry, at the point
\* where renderMedia is in flight: the state main reaches for that manifest.
ServerInit ==
    /\ caller = "cli"
    /\ hasFile = TRUE
    /\ argv = AllArgs
    /\ form = NoForm
    /\ videoExists = TRUE
    /\ pc = "renderWait"
    /\ staging = "exists"
    /\ server = "listening"
    /\ address = [host |-> ListenHost, port |-> 1]
    /\ port = ResolvedPort(address)
    /\ closeCalls = 0
    /\ engine = "render"
    /\ calls = [bundle |-> 1, select |-> 1, render |-> 1]
    /\ outFile = "absent"
    /\ pending = "none"
    /\ exitCode = -1
    /\ rpc = "none"
    /\ spawnCalls = 0
    /\ tmpFiles = {}
    /\ unlinks = {}
    /\ response = 0
    /\ \E l \in SeqsUpTo(Entries, 1), env \in Envs :
          /\ manifest = MkManifest("object", TRUE, l)
          /\ bRolls = l
          /\ idx = Len(l) + 1
          /\ IF l = << >>
             THEN /\ processedBRolls = << >>
                  /\ brollFiles = {}
                  /\ ffmpegRuns = << >>
                  /\ fetches = << >>
                  /\ entryErrors = << >>
             ELSE LET p == ProcessEntry(l[1], 1, env)
                  IN  /\ processedBRolls = << p.entry >>
                      /\ brollFiles = p.files
                      /\ ffmpegRuns = << p.runs >>
                      /\ fetches = << IF l[1].src.scheme = "http"
                                      THEN [sent |-> TRUE, status |-> env.status]
                                      ELSE [sent |-> FALSE, status |-> 0] >>
                      /\ entryErrors = << p.error >>
    /\ fileSize \in 0..MaxFileSize
    /\ brollSize \in 1..MaxFileSize
    /\ request = Idle
    /\ reply = Idle
    /\ stream = "none"
    /\ crashed = FALSE
    /\ captions = << >>
    /\ durationField = NoDuration
    /\ durationArg = NoDuration
    /\ inputProps = MkInputProps(VideoUrl(port), captions, argv.stylePreset,
                                 DurationSecondsFromCli(durationArg),
                                 processedBRolls)
    /\ engineProps = [select |-> inputProps, render |-> inputProps]
    /\ AuxIdle

jobVars ==
    << caller, hasFile, argv, form, manifest, videoExists, bRolls,
       processedBRolls,
       idx, staging, brollFiles, ffmpegRuns, fetches, entryErrors, address,
       port, closeCalls, calls, outFile, engineProps, pending, rpc,
       spawnCalls, tmpFiles, unlinks, response, fileSize, brollSize, auxVars,
       propsVars >>

\* a request arrives and the handler runs to its return (the handler is
\* synchronous and keeps nothing between requests, so requests are taken
\* one at a time)
Receive ==
    /\ server = "listening"
    /\ ~crashed
    /\ request = Idle
    /\ \E req \in Requests(brollFiles) :
          /\ request' = req
          /\ reply' = HandleRequest(req, fileSize, brollFiles, brollSize)
          /\ stream' = IF reply'.body.kind = "file" THEN "open" ELSE "none"
    /\ UNCHANGED << jobVars, pc, server, engine, exitCode, crashed >>

\* the read stream reaches the end of the file (a directory cannot be read)
StreamEnd ==
    /\ stream = "open"
    /\ reply.body.where # "stagingDir"
    /\ stream' = "ended"
    /\ UNCHANGED << jobVars, pc, server, engine, exitCode, crashed, request,
                    reply >>

\* the read stream emits "error" and its listener destroys the response
StreamErrorHandled ==
    /\ stream = "open"
    /\ reply.body.guarded
    /\ stream' = "destroyed"
    /\ UNCHANGED << jobVars, pc, server, engine, exitCode, crashed, request,
                    reply >>

\* the read stream emits "error" and has no listener: the event is thrown
\* as an uncaught exception and node exits
StreamErrorUncaught ==
    /\ stream = "open"
    /\ ~reply.body.guarded
    /\ stream' = "destroyed"
    /\ crashed' = TRUE
    /\ server' = "closed"
    /\ engine' = "none"
    /\ pc' = "exited"
    /\ exitCode' = 1
    /\ UNCHANGED << jobVars, request, reply >>

\* the response is over (ended or destroyed) and the connection is free
ResponseDone ==
    /\ request # Idle
    /\ stream # "open"
    /\ ~crashed
    /\ request' = Idle
    /\ reply' = Idle
    /\ UNCHANGED << jobVars, pc, server, engine, exitCode, crashed, stream >>

ServerNext ==
    \/ Receive
    \/ ResponseDone
    \/ StreamEnd
    \/ StreamErrorHandled
    \/ StreamErrorUncaught

ServerSpec == ServerInit /\ [][ServerNext]_vars

(* ---------------------------------------------------------------------- *)
(* The teardown step on a server in any state                              *)
(* ---------------------------------------------------------------------- *)
\* a job at its finally block, over a manifest without B-roll, whose
\* server handle is in any of its states
CloseInit ==
    /\ caller = "cli"
    /\ hasFile = TRUE
    /\ argv = AllArgs
    /\ form = NoForm
    /\ videoExists = TRUE
    /\ manifest = MkManifest("object", TRUE, << >>)
    /\ bRolls = << >>
    /\ processedBRolls = << >>
    /\ idx = 1
    /\ brollFiles = {}
    /\ ffmpegRuns = << >>
    /\ fetches = << >>
    /\ entryErrors = << >>
    /\ pc = "finally"
    /\ staging = "exists"
    /\ server \in {"none", "listening", "closed"}
    /\ address = [host |-> ListenHost, port |-> 1]
    /\ port = ResolvedPort(address)
    /\ closeCalls = 0
    /\ engine = "none"
    /\ calls = [bundle |-> 1, select |-> 1, render |-> 1]
    /\ outFile = "nonempty"
    /\ pending = "none"
    /\ exitCode = -1
    /\ rpc = "none"
    /\ spawnCalls = 0
    /\ tmpFiles = {}
    /\ unlinks = {}
    /\ response = 0
    /\ fileSize \in 0..MaxFileSize
    /\ brollSize \in 1..MaxFileSize
    /\ request = Idle
    /\ reply = Idle
    /\ stream = "none"
    /\ crashed = FALSE
    /\ captions = << >>
    /\ durationField = NoDuration
    /\ durationArg = NoDuration
    /\ inputProps = MkInputProps(VideoUrl(port), captions, argv.stylePreset,
                                 DurationSecondsFromCli(durationArg),
                                 processedBRolls)
    /\ engineProps = [select |-> inputProps, render |-> inputProps]
    /\ AuxIdle

\* try { server.close() } catch {} applied to the server as it is
CloseStep ==
    /\ closeCalls < MaxCloses
    /\ ~crashed
    /\ server' = CloseServer(server).server
    /\ closeCalls' = closeCalls + 1
    /\ pending' = IF CloseServer(server).threw THEN "close" ELSE pending
    /\ UNCHANGED << inputVars, netVars, httpVars, auxVars, propsVars,
                    manifest, videoExists, routeVars, brollVars,
                    engineVars, staging, exitCode, pc >>

CloseNext ==
    \/ CloseStep
    \/ Receive
    \/ ResponseDone
    \/ StreamEnd
    \/ StreamErrorHandled
    \/ StreamErrorUncaught

CloseSpec == CloseInit /\ [][CloseNext]_vars

(* ---------------------------------------------------------------------- *)
(* Several export requests handled by one app server                       *)
(* ---------------------------------------------------------------------- *)
\* An export request in flight.  at: "received", "named" (temp paths
\* built), "written" (temp files on disk), "staging" (render.mjs runs and
\* has its staging directory), "serving" (its server listens), "done";
\* id: the Date.now() part of video-<id>.mp4, captions-<id>.json and
\* captioned-<id>.mp4; dir: the suffix mkdtemp chose; port: the port bound.
NewJob == [at |-> "received", id |-> -1, dir |-> 0, port |-> 0]

\* the state of one run of POST and render.mjs
runVars ==
    << inputVars, netVars, httpVars, propsVars, manifest, mainVars,
       routeVars >>

\* everything but the clock and the requests in flight
oneJobVars == << runVars, stageIn, stageOut >>

JobsInit ==
    /\ Init
    /\ caller = "api"
    /\ hasFile = TRUE

\* a millisecond passes
Tick ==
    /\ now < MaxClock
    /\ now' = now + 1
    /\ UNCHANGED << jobs, oneJobVars >>

\* POST is called; formData and JSON.parse succeed
JobArrive ==
    /\ Len(jobs) < MaxJobs
    /\ jobs' = Append(jobs, NewJob)
    /\ UNCHANGED << now, oneJobVars >>

JobStep(j, from, to) ==
    /\ j \in 1..Len(jobs)
    /\ jobs[j].at = from
    /\ UNCHANGED << now, oneJobVars >>

\* const id = Date.now().toString(); videoPath, captionsPath, outPath
JobName(j) ==
    /\ JobStep(j, "received", "named")
    /\ jobs' = [jobs EXCEPT ![j].at = "named", ![j].id = now]

\* writeFile(videoPath), writeFile(captionsPath)
JobWrite(j) ==
    /\ JobStep(j, "named", "written")
    /\ jobs' = [jobs EXCEPT ![j].at = "written"]

\* render.mjs is spawned and calls mkdtemp, which creates a directory
\* that did not exist (no staging directory is ever removed)
JobMkdtemp(j) ==
    /\ JobStep(j, "written", "staging")
    /\ \E d \in 1..MaxJobs :
          /\ \A k \in 1..Len(jobs) : jobs[k].dir # d
          /\ jobs' = [jobs EXCEPT ![j].at = "staging", ![j].dir = d]

\* server.listen(0, "127.0.0.1"): a port no listening server holds
JobListen(j) ==
    /\ JobStep(j, "staging", "serving")
    /\ \E p \in 1..MaxJobs :
          /\ \A k \in 1..Len(jobs) :
                jobs[k].at = "serving" => jobs[k].port # p
          /\ jobs' = [jobs EXCEPT ![j].at = "serving", ![j].port = p]

\* the render ends, the server is closed, POST answers
JobFinish(j) ==
    /\ JobStep(j, "serving", "done")
    /\ jobs' = [jobs EXCEPT ![j].at = "done"]

JobsNext ==
    \/ Tick
    \/ JobArrive
    \/ \E j \in 1..MaxJobs : JobName(j)
    \/ \E j \in 1..MaxJobs : JobWrite(j)
    \/ \E j \in 1..MaxJobs : JobMkdtemp(j)
    \/ \E j \in 1..MaxJobs : JobListen(j)
    \/ \E j \in 1..MaxJobs : JobFinish(j)

JobsSpec == JobsInit /\ [][JobsNext]_vars

(* ---------------------------------------------------------------------- *)
(* downloadToBrollDir by itself                                            *)
(* ---------------------------------------------------------------------- *)
\* src values: the three kinds of source, existing or not, with an image
\* extension, a video extension in lower and in upper case, and none;
\* durationSeconds: not a number, or 0..MaxTrimSeconds
StagingEntries ==
    { MkEntry(MkSrc(sch, st, x), d.isNum, d.n) :
        sch \in {"file", "bare", "http"}, st \in {"clip", "no file"},
        x \in {".png", ".mp4", ".MP4", ""},
        d \in { [isNum |-> FALSE, n |-> 0] }
              \cup { [isNum |-> TRUE, n |-> n] : n \in 0..MaxTrimSeconds } }
    \cup OddEntries

\* the source clip: its length in seconds and its frame rate
Clips == [seconds : 1..MaxClipSeconds, fps : {24, 30}]

StagingInit ==
    /\ Init
    /\ caller = "cli"
    /\ argv = AllArgs

\* main calls downloadToBrollDir(src, brollDir, "broll-1", desiredDur)
StageCall ==
    /\ stageIn = NoStage
    /\ \E e \in StagingEntries, env \in Envs, clip \in Clips :
          stageIn' = [called |-> TRUE, entry |-> e, hint |-> 1, env |-> env,
                      clip |-> clip]
    /\ UNCHANGED << stageOut, now, jobs, runVars >>

\* downloadToBrollDir returns or throws.  trim: what trimVideoCopyOrEncode
\* did, when it was called; media: length and frame rate of the file at
\* the returned path
StageReturn ==
    /\ stageIn # NoStage
    /\ stageOut = NoStage
    /\ LET e == stageIn.entry
           env == stageIn.env
           r == downloadToBrollDir(e, stageIn.hint, env)
           t == trimVideoCopyOrEncode(env.copy, env.encode)
       IN  stageOut' =
             [called |-> TRUE,
              result |-> r,
              trimCalled |-> r.runs > 0,
              trim |-> t,
              args |-> [k \in 1..r.runs |-> TrimArgs(t.tiers[k], e.dur)],
              media |-> IF r.runs > 0 /\ t.ok
                        THEN Ffmpeg(TrimArgs(LastTier(env.copy, env.encode),
                                             e.dur),
                                    stageIn.clip)
                        ELSE stageIn.clip]
    /\ UNCHANGED << stageIn, now, jobs, runVars >>

StagingNext ==
    \/ StageCall
    \/ StageReturn

StagingSpec == StagingInit /\ [][StagingNext]_vars

(* ---------------------------------------------------------------------- *)
(* render.mjs, the variant without B-roll                                  *)
(* ---------------------------------------------------------------------- *)
\* the request handler of its startVideoServer: 400 without URL, 404 for
\* every path but /video, the whole file, or the span of the Range header
PlainHandleRequest(req, size) ==
    IF ~req.hasUrl THEN PlainResponse(400)
    ELSE IF req.class # "video" THEN PlainResponse(404)
    ELSE IF ~req.range.present
         THEN MkResponse(200, TRUE, TRUE, TRUE, size, "video/mp4",
                         FileBody("video", EmptyName, 0, size - 1, FALSE))
         ELSE LET start == req.range.start
                  end == IF req.range.hasEnd THEN req.range.end ELSE size - 1
                  head == [MkResponse(206, TRUE, TRUE, TRUE,
                                      ChunkSize(start, end), "video/mp4",
                                      NoBody)
                             EXCEPT !.hasRange = TRUE, !.rangeStart = start,
                                    !.rangeEnd = end, !.rangeTotal = size]
              IN  IF StreamOptionsThrow(start, end)
                  THEN [head EXCEPT !.body = TextBody]
                  ELSE [head EXCEPT !.body =
                            FileBody("video", EmptyName, start, end, TRUE)]

\* what the environment answers a run: whether the video exists, whether
\* listen succeeds and on which port, whether bundle and selectComposition
\* resolve, how renderMedia ends, and the output file it leaves
PlainEnvs ==
    [videoExists : BOOLEAN, listenOk : BOOLEAN, port : Ports,
     bundleOk : BOOLEAN, selectOk : BOOLEAN,
     render : {"ok", "reject", "timeout"},
     outFile : {"absent", "empty", "nonempty"}]

\* inputProps of the variant: { videoSrc, captions, stylePreset,
\* durationInSeconds: durationSecondsFromCli || undefined }
PlainInputProps(videoUrl, caps, preset, seconds) ==
    [videoSrc |-> videoUrl, captions |-> caps, stylePreset |-> preset,
     durationInSeconds |-> DurationProp(seconds)]

\* main of the variant, for arguments a, manifest m and duration argument
\* d, in environment e: the steps it takes in order, its exit code, the
\* inputProps it hands to selectComposition and renderMedia, and whether
\* it started and closed its server.  The captions are the parsed
\* manifest itself; the output file is not examined.
PlainMain(a, m, d, e) ==
    LET started == e.videoExists /\ e.listenOk
        failed == [steps |-> << >>, exitCode |-> 1, built |-> FALSE,
                   props |-> PlainInputProps(VideoUrl(0), << >>, FALSE, 0),
                   server |-> "none", closeCalls |-> 0]
        props == PlainInputProps(VideoUrl(e.port), m.captions, a.stylePreset,
                                 DurationSecondsFromCli(d))
        engineSteps ==
            CASE ~e.bundleOk -> << "bundle" >>
              [] e.bundleOk /\ ~e.selectOk -> << "bundle", "select" >>
              [] OTHER -> << "bundle", "select", "render" >>
        engineOk == e.bundleOk /\ e.selectOk /\ e.render = "ok"
    IN  CASE ArgsMissing(a) -> [failed EXCEPT !.steps = << "validate" >>]
          [] ~ArgsMissing(a) /\ ManifestError(m) # "none" ->
                [failed EXCEPT !.steps = << "validate", "parse" >>]
          [] ~ArgsMissing(a) /\ ManifestError(m) = "none" /\ ~started ->
                [failed EXCEPT
                    !.steps = << "validate", "parse", "start server" >>]
          [] OTHER ->
                [steps |-> << "validate", "parse", "start server" >>
                              \o engineSteps \o << "close server" >>,
                 exitCode |-> IF engineOk THEN 0 ELSE 1,
                 built |-> TRUE,
                 props |-> props,
                 server |-> "closed",
                 closeCalls |-> 1]

(* ---------------------------------------------------------------------- *)
(* Specifications                                                          *)
(* ---------------------------------------------------------------------- *)
Next ==
    \/ ValidateArgs
    \/ ReadManifest
    \/ Mkdtemp
    \/ StartVideoServer
    \/ BRollLocal
    \/ BRollFetchCall
    \/ BRollFetchReturn
    \/ LoopEnd
    \/ BuildInputProps
    \/ BundleCall
    \/ BundleReturn
    \/ SelectCall
    \/ SelectReturn
    \/ RenderCall
    \/ RenderReturn
    \/ RenderTimeout
    \/ StatOutput
    \/ Finally
    \/ FatalHandler
    \/ ProcessEnd
    \/ RouteValidate
    \/ RouteWriteFiles
    \/ RouteSpawn
    \/ RouteSpawnError
    \/ RouteChildClose
    \/ RouteReadOutput

Spec == Init /\ [][Next]_vars

\* The steps main and POST take by themselves are taken (the event loop
\* runs them), and the renderMedia timeout fires when nothing else ends
\* the call.  Nothing forces fetch, bundle or selectComposition to settle,
\* nor renderMedia to settle before its timeout: these are the environment.
FairSpec ==
    /\ Spec
    /\ WF_vars(ValidateArgs)
    /\ WF_vars(ReadManifest)
    /\ WF_vars(Mkdtemp)
    /\ WF_vars(StartVideoServer)
    /\ WF_vars(BRollLocal)
    /\ WF_vars(BRollFetchCall)
    /\ WF_vars(LoopEnd)
    /\ WF_vars(BuildInputProps)
    /\ WF_vars(BundleCall)
    /\ WF_vars(SelectCall)
    /\ WF_vars(RenderCall)
    /\ WF_vars(RenderTimeout)
    /\ WF_vars(StatOutput)
    /\ WF_vars(Finally)
    /\ WF_vars(FatalHandler)
    /\ WF_vars(ProcessEnd)
    /\ WF_vars(RouteValidate)
    /\ WF_vars(RouteWriteFiles)
    /\ WF_vars(RouteSpawn)
    /\ WF_vars(RouteChildClose)
    /\ WF_vars(RouteReadOutput)

TypeOK ==
    /\ caller \in {"cli", "api"}
    /\ server \in {"none", "listening", "closed"}
    /\ staging \in {"none", "exists", "removed"}
    /\ engine \in {"none", "bundle", "select", "render"}
    /\ exitCode \in {-1, 0, 1}
    /\ Len(processedBRolls) = idx - 1
    /\ idx <= Len(bRolls) + 1

(* ---------------------------------------------------------------------- *)
(* Properties                                                              *)
(* ---------------------------------------------------------------------- *)
\* main has handed control back: it returned, or its rejection reached
\* main().catch / the process has exited
ControlReturned == pc \in {"returned", "fatal", "exited"}

\* a file was staged in brollDir for entry i (its name carries the index)
Staged(i) == \E f \in brollFiles : f.hint = i

\* main is past the B-roll loop (after the server has started, nothing
\* throws before the try block)
LoopDone ==
    \/ pc \in {"staged", "bundle", "bundleWait", "select", "selectWait", "render",
               "renderWait", "stat", "finally", "returned"}
    \/ (pc \in {"fatal", "exited"} /\ server # "none")

C2_StagingRemoved ==
    (ControlReturned /\ staging # "none") => staging = "removed"

\* C3: when one of the four required arguments is missing, main fails with
\* the usage error and has opened nothing: no staging directory, no server,
\* no engine call.
C3_UsageBeforeResources ==
    (\E a \in DOMAIN argv : ~argv[a] /\ pc # "args")
        => /\ pending = "usage"
           /\ pc \in {"fatal", "exited"}
           /\ (pc = "exited" => exitCode = 1)
           /\ staging = "none"
           /\ server = "none"
           /\ closeCalls = 0
           /\ calls = NoCalls
           /\ brollFiles = {}

\* a run without output path that has exited
C3_Witness ==
    /\ ~argv.outPath
    /\ argv.videoPath /\ argv.captionsPath /\ argv.stylePreset
    /\ pc = "exited"
    /\ exitCode = 1

\* C4: when the manifest file is absent or is not valid JSON, the job fails
\* with that cause, and no staging directory was created, the server was
\* never started and the engine never invoked.
C4_ManifestFailureBeforeResources ==
    (manifest.kind \in {"absent", "badjson"} /\ pc \notin {"notStarted", "args", "manifest"})
        => /\ pending = (IF manifest.kind = "absent" THEN "noManifest" ELSE "parse")
           /\ pc \in {"fatal", "exited"}
           /\ (pc = "exited" => exitCode = 1)
           /\ staging = "none"
           /\ server = "none"
           /\ closeCalls = 0
           /\ calls = NoCalls

\* a run over a manifest that is not valid JSON, which has exited
C4_Witness ==
    /\ manifest.kind = "badjson"
    /\ caller = "cli"
    /\ pc = "exited"
    /\ exitCode = 1

\* C5: whenever bundle, selectComposition or renderMedia is in flight the
\* server is listening; no engine call was made before the server listened,
\* and the server is closed only when no engine call is in flight.
C5_ListeningWhileEngineRuns ==
    /\ engine # "none" => server = "listening"
    /\ calls # NoCalls => server # "none"
    /\ pc \in {"staged", "bundle", "select", "render", "stat"}
          => server = "listening"

\* renderMedia in flight
C5_Witness ==
    /\ engine = "render"
    /\ calls.render = 1
    /\ server = "listening"

\* C6: every job in which the server was started eventually ends (Completed
\* or Failed) with the server torn down, even when the engine or a remote
\* fetch never answers.
C6_EventuallyTornDown ==
    (server = "listening") ~> (ControlReturned /\ server = "closed")

\* C7: per job bundle, selectComposition and renderMedia are each invoked at
\* most once and POST spawns render.mjs at most once; a failure is reported
\* upward: exit code 1 from render.mjs, status 500 from POST.
C7_NoRetry ==
    /\ calls.bundle <= 1
    /\ calls.select <= 1
    /\ calls.render <= 1
    /\ spawnCalls <= 1
    /\ (pc = "exited" /\ pending # "none") => exitCode = 1
    /\ (rpc = "done" /\ exitCode = 1) => response = 500

\* a render that timed out, was reported by the script and by the route
C7_Witness ==
    /\ pending = "timeout"
    /\ calls.render = 1
    /\ spawnCalls = 1
    /\ exitCode = 1
    /\ response = 500

\* C8: a job whose renderMedia completed is reported successful only if the
\* output file exists and is non-empty.
C8_SuccessNeedsNonEmptyOutput ==
    (pc = "returned" \/ (pc = "exited" /\ exitCode = 0)) => outFile = "nonempty"

\* C9: a failure to stage an entry does not abort the batch: the entry is
\* in the final list with its original src unchanged, the final list has
\* the manifest's length and order, and the render is attempted.
C9_FailedEntryPassedThrough ==
    /\ \A i \in 1..Len(processedBRolls) :
          /\ processedBRolls[i].dur = bRolls[i].dur
          /\ processedBRolls[i].durIsNum = bRolls[i].durIsNum
          /\ ~Staged(i) => processedBRolls[i] = bRolls[i]
    /\ LoopDone => Len(processedBRolls) = Len(bRolls)
    /\ (pc = "exited" /\ server # "none") => calls.bundle = 1

\* C10: a local source (file:// URI or bare path) that does not exist is not
\* rewritten to a /broll/ URL.
C10_MissingLocalNotRewritten ==
    \A i \in 1..Len(processedBRolls) :
        (bRolls[i].src.scheme \in {"file", "bare"} /\ ~ExistsSync(bRolls[i].src))
            => processedBRolls[i].src = bRolls[i].src

\* C11: when the response to the fetch of a remote source is not
\* successful, acquisition fails with an error that carries the HTTP
\* status, no file is written to the staging directory for the entry and
\* no ffmpeg subprocess is started.
C11_DownloadFailed ==
    \A i \in 1..Len(fetches) :
        (/\ fetches[i].sent
         /\ fetches[i].status # 0
         /\ (fetches[i].status < 200 \/ fetches[i].status > 299))
            => /\ entryErrors[i] = MkError("download", fetches[i].status)
               /\ ~Staged(i)
               /\ ffmpegRuns[i] = 0
               /\ processedBRolls[i] = bRolls[i]

\* a remote entry answered 404 has been processed
C11_Witness ==
    \E i \in 1..Len(fetches) :
        /\ fetches[i].sent
        /\ fetches[i].status = 404
        /\ entryErrors[i].kind = "download"

\* both trim tiers ran for entry i and neither left a trimmed file
BothTiersFailed(i) ==
    /\ i <= Len(ffmpegRuns)
    /\ ffmpegRuns[i] = 2
    /\ ~\E f \in brollFiles : f.hint = i /\ f.trim

\* the pre-trim file of entry i is in the staging directory and is what
\* downloadToBrollDir returned for it
ReturnedUntrimmed(i) ==
    \E f \in brollFiles :
        /\ f.hint = i
        /\ ~f.trim
        /\ processedBRolls[i].src.scheme = "public"
        /\ processedBRolls[i].src.name = f
        /\ processedBRolls[i].localPath = [staged |-> TRUE, name |-> f]

\* C13 (as stated): when both trim tiers fail for a video entry, a
\* TrimFailed error for the entry reaches the caller, and the original
\* staged file is kept and returned untrimmed.
C13_TrimFailedSurfaced ==
    \A i \in 1..Len(processedBRolls) :
        BothTiersFailed(i)
            => entryErrors[i].kind = "trimFailed" /\ ReturnedUntrimmed(i)

\* C13 (amended): when both trim tiers fail for a video entry, no error
\* reaches the caller of downloadToBrollDir (the failure is only logged);
\* the original staged file is kept and returned untrimmed, and the
\* entry's src is rewritten to the URL of that file.
C13_TrimFailureSilent ==
    \A i \in 1..Len(processedBRolls) :
        BothTiersFailed(i)
            => entryErrors[i] = NoError /\ ReturnedUntrimmed(i)

\* an entry whose two trim tiers failed has been processed
C13_Witness ==
    \E i \in 1..Len(processedBRolls) :
        BothTiersFailed(i) /\ bRolls[i].dur = 3

\* C20: startVideoServer fails with the not-found error when the video
\* path does not exist, and then nothing is bound; when it succeeds the
\* server is bound to the loopback interface and the port returned to main
\* (the one in videoUrl) is the port that was bound.
C20_NotFoundOrLoopbackPort ==
    /\ ~videoExists
          => /\ pending = "videoNotFound"
             /\ server = "none"
             /\ address = NoAddress
    /\ server # "none"
          => /\ address.host = "127.0.0.1"
             /\ address.port \in 1..MaxPort
             /\ port = address.port
    /\ server = "none" => address = NoAddress /\ port = 0

\* the server listens on the second port
C20_Witness ==
    /\ server = "listening"
    /\ address.port = 2
    /\ port = 2

(* ---------------------------------------------------------------------- *)
(* Properties of the asset server                                          *)
(* ---------------------------------------------------------------------- *)
\* a request has been handled and its response is still at hand
Answered == request # Idle /\ reply # Idle

\* the file a /broll/ request names, when it is a staged file
NamesStaged(req, files) ==
    /\ req.class = "broll"
    /\ DecodeName(req.raw).ok
    /\ JoinBrollDir(DecodeName(req.raw).name) = "staging"
    /\ DecodeName(req.raw).name \in files

\* C12: every entry of the final list whose src was rewritten has src =
\* baseURL/broll/encodeURIComponent(filename); the server decodes that URL
\* to the file staged for the entry, which is in the staging directory, so
\* a GET of the rewritten src is not answered 404 while the server is up.
C12_RewrittenSrcServed ==
    \A i \in 1..Len(processedBRolls) :
        LET e == processedBRolls[i]
        IN  e.src.scheme = "public" =>
                /\ e.src.port = port
                /\ e.src.name = EncodeName(e.localPath.name)
                /\ DecodeName(e.src.name).ok
                /\ DecodeName(e.src.name).name = e.localPath.name
                /\ e.localPath.staged
                /\ e.localPath.name \in brollFiles
                /\ server = "listening" =>
                       HandleRequest(MkRequest("broll", e.src.name, NoRange),
                                     0, brollFiles, 1).status # 404

\* the size of the file a request is about
SizeFor(req) == IF req.class = "video" THEN fileSize ELSE brollSize

\* the last byte asked for: the end of the header, or the last byte of
\* the file when the header gives no end
LastAsked(req) ==
    IF req.range.hasEnd THEN req.range.end ELSE SizeFor(req) - 1

\* a Range header with 0 <= start <= end <= N-1 on /video or on a staged
\* video B-roll file
ValidRangeRequest ==
    /\ Answered
    /\ \/ request.class = "video"
       \/ /\ NamesStaged(request, brollFiles)
          /\ DecodeName(request.raw).name.ext \in VideoExts
    /\ request.range.present
    /\ request.range.start # NaN
    /\ LastAsked(request) # NaN
    /\ 0 <= request.range.start
    /\ request.range.start <= LastAsked(request)
    /\ LastAsked(request) <= SizeFor(request) - 1

\* C14: a valid range start-end on /video, or on a staged video B-roll
\* file, is answered 206 with Content-Range bytes start-end/N,
\* Content-Length end-start+1 and that byte span of the file; an omitted
\* end stands for N-1.
C14_ValidRangeServed ==
    ValidRangeRequest =>
        /\ reply.status = 206
        /\ reply.hasRange
        /\ reply.rangeStart = request.range.start
        /\ reply.rangeEnd = LastAsked(request)
        /\ reply.rangeTotal = SizeFor(request)
        /\ reply.hasLength
        /\ reply.length = LastAsked(request) - request.range.start + 1
        /\ reply.body.kind = "file"
        /\ reply.body.first = request.range.start
        /\ reply.body.last = LastAsked(request)
        /\ IF request.class = "video"
           THEN reply.body.where = "video"
           ELSE /\ reply.body.where = "staging"
                /\ reply.body.name = DecodeName(request.raw).name

\* a ranged request for a staged video B-roll file, end omitted, has been
\* answered and its span streamed to the end
C14_Witness ==
    /\ ValidRangeRequest
    /\ request.class = "broll"
    /\ ~request.range.hasEnd
    /\ request.range.start > 0
    /\ reply.status = 206
    /\ stream = "ended"

\* C15: /video without a Range header is answered 200 with Content-Length
\* equal to the file size, Accept-Ranges: bytes and the whole file as body.
C15_WholeVideoServed ==
    (Answered /\ request.class = "video" /\ ~request.range.present) =>
        /\ reply.status = 200
        /\ reply.hasLength
        /\ reply.length = fileSize
        /\ reply.acceptRanges
        /\ reply.body.kind = "file"
        /\ reply.body.where = "video"
        /\ reply.body.first = 0
        /\ reply.body.last = fileSize - 1

\* /video without Range has been answered for a non-empty file and the
\* stream has reached the end of the file
C15_Witness ==
    /\ Answered
    /\ request.class = "video"
    /\ ~request.range.present
    /\ fileSize > 0
    /\ reply.status = 200
    /\ stream = "ended"

\* C16: a request whose path is neither /video nor /broll/<name> of a file
\* present in the staging directory is answered 404.
C16_UnknownPathNotFound ==
    (Answered /\ request.class # "video"
              /\ ~NamesStaged(request, brollFiles)) =>
        reply.status = 404

\* C17: a 200 or 206 body comes from the primary video or from a file
\* inside the staging directory; no path makes the server read outside
\* the staging directory.
C17_BodyFromVideoOrStaging ==
    (Answered /\ reply.status \in {200, 206} /\ reply.body.kind = "file") =>
        reply.body.where \in {"video", "staging", "stagingDir"}

\* C18: a read-stream error while a body is written destroys only that
\* response: the process stays alive and the server keeps listening.
C18_StreamErrorSurvived ==
    stream = "destroyed" => (~crashed /\ server = "listening")

\* C19: every response, whatever its status, carries
\* Access-Control-Allow-Origin: *.
C19_EveryResponseCors ==
    Answered => reply.acao

Resolved == pc \notin {"notStarted", "args", "manifest", "fatal", "exited"}
            \/ (pc \in {"fatal", "exited"} /\ staging # "none")

\* C22: an array manifest A resolves to captions = A and bRolls = []; an
\* object resolves to captions = its captions field if that is an array,
\* else [], and bRolls = its bRolls field if that is an array, else []; so
\* the array A resolves as the object {captions: A, bRolls: []} does.
C22_ManifestResolved ==
    Resolved =>
        /\ manifest.kind = "array"
              => (captions = manifest.captions /\ bRolls = << >>)
        /\ manifest.kind = "object"
              => /\ captions = IF manifest.captionsIsArray
                               THEN manifest.captions ELSE << >>
                 /\ bRolls = IF manifest.bRollsIsArray
                             THEN manifest.bRolls ELSE << >>

\* a flat array with one caption has been resolved
C22_Witness ==
    /\ Resolved
    /\ manifest.kind = "array"
    /\ manifest.captions = << "hi" >>
    /\ captions = << "hi" >>
    /\ inputProps.built
    /\ inputProps.captions = << "hi" >>

\* C23: a positive duration d supplied by the caller is forwarded unchanged
\* as inputProps.durationInSeconds and governs the composition; an absent
\* duration or 0 is forwarded as undefined, so that the composition's
\* default governs.
C23_DurationForwarded ==
    inputProps.built =>
        /\ (durationField.kind = "digits" /\ durationField.n > 0)
              => /\ inputProps.durationInSeconds =
                        [defined |-> TRUE, value |-> durationField.n]
                 /\ CompositionSeconds(inputProps) = durationField.n
        /\ (durationField.kind = "absent"
              \/ (durationField.kind = "digits" /\ durationField.n = 0))
              => /\ ~inputProps.durationInSeconds.defined
                 /\ CompositionSeconds(inputProps) = DefaultDurationInSeconds

\* a request to the API with a duration of 2 seconds has reached the engine
C23_Witness ==
    /\ caller = "api"
    /\ durationField = Digits(2)
    /\ inputProps.built
    /\ inputProps.durationInSeconds.value = 2
    /\ engine = "render"

(* ---------------------------------------------------------------------- *)
(* Properties of the outcome reported to the caller                        *)
(* ---------------------------------------------------------------------- *)
\* C24: the caller receives a valid output file or a single failure:
\* render.mjs exits with a non-zero code exactly when the job failed, POST
\* answers 200 only when the script exited with 0 and a valid (existing,
\* non-empty) output file was read, and otherwise answers one error.
C24_ValidFileOrSingleFailure ==
    /\ pc = "exited" => (exitCode # 0 <=> pending # "none")
    /\ response = 200 => (exitCode = 0 /\ outFile = "nonempty")
    /\ rpc = "done" => response \in {200, 400, 500}

(* ---------------------------------------------------------------------- *)
(* Properties of concurrent export requests                                *)
(* ---------------------------------------------------------------------- *)
\* C25: no two jobs share mutable state: the temp video, manifest and
\* output paths, the staging directory and the listening port of one job
\* differ from those of any other job, also when both start in the same
\* millisecond.
C25_JobsDisjoint ==
    \A j, k \in 1..Len(jobs) :
        j # k =>
            /\ (jobs[j].id # -1 /\ jobs[k].id # -1)
                  => jobs[j].id # jobs[k].id
            /\ (jobs[j].dir # 0 /\ jobs[k].dir # 0)
                  => jobs[j].dir # jobs[k].dir
            /\ (jobs[j].at = "serving" /\ jobs[k].at = "serving")
                  => jobs[j].port # jobs[k].port

(* ---------------------------------------------------------------------- *)
(* Properties of downloadToBrollDir and trimVideoCopyOrEncode              *)
(* ---------------------------------------------------------------------- *)
\* downloadToBrollDir has returned after calling trimVideoCopyOrEncode
Trimmed == stageOut.called /\ stageOut.trimCalled

\* the name of the file staged for the call, before any trim
StagedName ==
    MkName(stageIn.hint, "broll", stageIn.env.nonce,
           ExtOrJpg(stageIn.entry.src.name.ext), FALSE)

\* one of the tiers that ran exited with status 0
TierSucceeded ==
    stageIn.env.copy = "zero" \/ stageIn.env.encode = "zero"

\* C26: trimming never changes the play rate: when the requested duration
\* is longer than the source clip, the trimmed output lasts the requested
\* duration and has the frame rate of the source; no tier passes a
\* frame-rate option to ffmpeg, only the cut duration.
C26_TrimKeepsRateAndLength ==
    (Trimmed /\ TierSucceeded) =>
        /\ \A k \in DOMAIN stageOut.args :
              /\ stageOut.args[k].rate = "none"
              /\ stageOut.args[k].t = stageIn.entry.dur
        /\ stageOut.media.fps = stageIn.clip.fps
        /\ stageIn.entry.dur > stageIn.clip.seconds
              => stageOut.media.seconds = stageIn.entry.dur

\* C28: the re-encode tier runs exactly when the copy tier failed
\* (non-zero status, spawn error or timeout); at most two subprocesses
\* run, copy first, then re-encode; trimVideoCopyOrEncode returns true
\* exactly when one of the tiers exited with status 0.
C28_TiersInOrder ==
    Trimmed =>
        /\ Len(stageOut.trim.tiers) \in {1, 2}
        /\ stageOut.result.runs = Len(stageOut.trim.tiers)
        /\ stageOut.trim.tiers[1] = "copy"
        /\ Len(stageOut.trim.tiers) = 2 <=> stageIn.env.copy # "zero"
        /\ Len(stageOut.trim.tiers) = 2 => stageOut.trim.tiers[2] = "encode"
        /\ stageOut.trim.ok <=> TierSucceeded

\* the copy tier timed out or could not be spawned, the re-encode tier
\* exited with status 0
C28_Witness ==
    /\ Trimmed
    /\ stageIn.env.copy = "error"
    /\ stageIn.env.encode = "zero"
    /\ stageOut.trim.ok
    /\ stageOut.trim.tiers = << "copy", "encode" >>

\* C29: a trim subprocess is started exactly when the staged file has a
\* video extension (in any case) and a numeric duration greater than 0
\* was supplied; any other staged file is returned as it is; the same for
\* file://, bare-path and remote sources.
C29_TrimIffVideoAndDuration ==
    stageOut.called =>
        /\ stageOut.trimCalled <=>
              /\ stageOut.result.staged
              /\ ToLowerCase(StagedName.ext) \in
                    {".mp4", ".mov", ".mkv", ".webm", ".ogg", ".ogv", ".m4v"}
              /\ stageIn.entry.durIsNum
              /\ stageIn.entry.dur > 0
        /\ (stageOut.result.staged /\ ~stageOut.trimCalled)
              => /\ stageOut.result.name = StagedName
                 /\ stageOut.result.files = {StagedName}
                 /\ stageOut.result.runs = 0

\* a remote clip with an upper-case extension has been trimmed
C29_Witness ==
    /\ Trimmed
    /\ stageIn.entry.src.scheme = "http"
    /\ stageIn.entry.src.name.ext = ".MP4"
    /\ stageOut.result.runs > 0

\* C30: after a successful trim the returned path is the trimmed file and
\* the pre-trim file has been removed, unless removing it failed, in which
\* case the entry still succeeds with the trimmed path; after a failed
\* trim the pre-trim file is still there and is the returned path.
C30_TrimmedReplacesOriginal ==
    Trimmed =>
        /\ ~stageOut.result.threw
        /\ TierSucceeded
              => /\ stageOut.result.name = [StagedName EXCEPT !.trim = TRUE]
                 /\ stageOut.result.name \in stageOut.result.files
                 /\ stageIn.env.unlinkOk
                       => StagedName \notin stageOut.result.files
        /\ ~TierSucceeded
              => /\ stageOut.result.name = StagedName
                 /\ StagedName \in stageOut.result.files

\* a trim succeeded and the pre-trim file could not be removed
C30_Witness ==
    /\ Trimmed
    /\ TierSucceeded
    /\ ~stageIn.env.unlinkOk
    /\ stageOut.result.name.trim
    /\ StagedName \in stageOut.result.files

(* ---------------------------------------------------------------------- *)
(* Properties of the job's state machine                                   *)
(* ---------------------------------------------------------------------- *)
\* The state of the job: Idle until the server listens, ServerStarted
\* while assets are staged, AssetsStaged once the loop is over,
\* ParamsResolved once inputProps is built, Rendering from the first
\* engine call until the finally block has run, then Completed or Failed.
Phase ==
    CASE pc \in {"notStarted", "args", "manifest", "mkdtemp", "startServer"}
           -> "Idle"
      [] pc \in {"broll", "fetch"} -> "ServerStarted"
      [] pc = "staged" -> "AssetsStaged"
      [] pc = "bundle" -> "ParamsResolved"
      [] pc \in {"bundleWait", "select", "selectWait", "render",
                 "renderWait", "stat", "finally"} -> "Rendering"
      [] pc = "returned" -> "Completed"
      [] pc = "fatal" -> "Failed"
      [] pc = "exited" -> IF exitCode = 0 THEN "Completed" ELSE "Failed"

PhaseOrder ==
    << "Idle", "ServerStarted", "AssetsStaged", "ParamsResolved",
       "Rendering" >>

StagedEntry(i) ==
    /\ processedBRolls[i].src.scheme = "public"
    /\ processedBRolls[i].localPath.staged

\* the name of a staged file before "trim-" was put in front of it
PreTrim(n) == [n EXCEPT !.trim = FALSE]

\* the paths written in the staging directory for entry i: the copied or
\* downloaded file and, when the entry was trimmed, the trimmed file
WrittenFor(i) ==
    { PreTrim(processedBRolls[i].localPath.name),
      processedBRolls[i].localPath.name }

\* C31: within one job the names generated for two different entries are
\* different (the name carries the index of the entry), and a trimmed
\* file's name is the name of no pre-trim file: no staged file is
\* overwritten by another entry, and ffmpeg never reads and writes the
\* same path.
C31_StagedNamesDistinct ==
    \A i \in 1..Len(processedBRolls) :
        StagedEntry(i) =>
            LET n == processedBRolls[i].localPath.name
            IN  /\ n.hint = i
                /\ n.trim => n # PreTrim(n)
                /\ \A j \in 1..Len(processedBRolls) :
                      (j # i /\ StagedEntry(j))
                          => WrittenFor(i) \cap WrittenFor(j) = {}

\* two entries with the same extension were staged in the same
\* millisecond with the same random suffix, the first one trimmed
C31_Witness ==
    /\ Len(processedBRolls) = 2
    /\ StagedEntry(1) /\ StagedEntry(2)
    /\ processedBRolls[1].localPath.name.trim
    /\ ~processedBRolls[2].localPath.name.trim
    /\ processedBRolls[1].localPath.name.ext
          = processedBRolls[2].localPath.name.ext
    /\ processedBRolls[1].localPath.name.nonce
          = processedBRolls[2].localPath.name.nonce

(* ---------------------------------------------------------------------- *)
(* Properties of the input properties                                      *)
(* ---------------------------------------------------------------------- *)
\* C32: the input properties handed to the engine are videoSrc = base URL
\* + "/video", the captions, the style preset, the duration and the
\* processed B-roll list; selectComposition and renderMedia get that same
\* object; every processed entry has each field of its manifest entry
\* unchanged, except src.
C32_InputPropsHanded ==
    /\ inputProps.built =>
          /\ inputProps.videoSrc =
                [host |-> "127.0.0.1", port |-> address.port,
                 path |-> "/video"]
          /\ inputProps.captions = captions
          /\ inputProps.stylePreset = argv.stylePreset
          /\ inputProps.durationInSeconds.defined
                => inputProps.durationInSeconds.value = Number(durationArg)
          /\ inputProps.bRolls = processedBRolls
    /\ calls.select > 0 => (inputProps.built /\ engineProps.select = inputProps)
    /\ calls.render > 0 => (inputProps.built /\ engineProps.render = inputProps)
    /\ \A i \in 1..Len(processedBRolls) :
          \A f \in DOMAIN bRolls[i] \ {"src"} :
              /\ f \in DOMAIN processedBRolls[i]
              /\ processedBRolls[i][f] = bRolls[i][f]

\* renderMedia has been called with a list whose first entry was rewritten
C32_Witness ==
    /\ calls.select = 1
    /\ calls.render = 1
    /\ Len(processedBRolls) = 2
    /\ processedBRolls[1].src.scheme = "public"
    /\ processedBRolls[1].src # bRolls[1].src
    /\ processedBRolls[1].startSeconds = 1
    /\ engineProps.render.bRolls = processedBRolls

(* ---------------------------------------------------------------------- *)
(* Properties of the partial responses                                     *)
(* ---------------------------------------------------------------------- *)
\* C33: every 206 response, whatever Range header was sent (no start,
\* start after end, end at or past the size of the file, no number), has
\* a Content-Range with 0 <= start <= end <= size - 1 and a Content-Length
\* of end - start + 1, which is at least 1.
C33_PartialWellFormed ==
    (Answered /\ reply.status = 206) =>
        /\ reply.hasRange
        /\ 0 <= reply.rangeStart
        /\ reply.rangeStart <= reply.rangeEnd
        /\ reply.rangeEnd <= SizeFor(request) - 1
        /\ reply.hasLength
        /\ reply.length = reply.rangeEnd - reply.rangeStart + 1
        /\ reply.length >= 1

(* ---------------------------------------------------------------------- *)
(* Properties of the composition length                                    *)
(* ---------------------------------------------------------------------- *)
\* C34: whatever duration argument render.mjs is started with (none, 0, a
\* positive or negative number, a text that is no number), the
\* durationInFrames of the composition is an integer >= 1: max(1,
\* round(d * 30)) when a number d other than 0 is forwarded, and 1800
\* when the argument is absent, 0 or no number.
C34_FramesAtLeastOne ==
    calls.select > 0 =>
        LET frames == DurationInFrames(engineProps.select)
            d == durationArg
        IN  /\ IsInteger(frames)
            /\ frames >= 1
            /\ d.kind \in {"absent", "text"} => frames = 1800
            /\ (d.kind = "digits" /\ d.n = 0) => frames = 1800
            /\ (d.kind = "digits" /\ d.n # 0)
                  => frames = (IF d.n * 30 >= 1 THEN d.n * 30 ELSE 1)

(* ---------------------------------------------------------------------- *)
(* Properties of POST /api/render                                          *)
(* ---------------------------------------------------------------------- *)
\* POST has read the form
FormRead == caller = "api" /\ rpc # "start"

\* C35: POST /api/render answers 400 when the file field or the captions
\* field is missing; no temp file has then been written and no render
\* subprocess spawned.
C35_MissingFieldRejected ==
    (FormRead /\ (~hasFile \/ manifest.kind = "absent")) =>
        /\ rpc = "done"
        /\ response = 400
        /\ tmpFiles = {}
        /\ spawnCalls = 0
        /\ pc = "notStarted"

\* a request with a file and without captions has been answered
C35_Witness ==
    /\ FormRead
    /\ hasFile
    /\ manifest.kind = "absent"
    /\ response = 400

\* C36: on every exit path of POST taken after the temp video and
\* manifest files were written (render succeeded, render script failed,
\* output file unreadable), the deletion of the temp video, manifest and
\* output files has been issued when the response is returned, and a
\* deletion that failed has not changed the response.
C36_TempFilesDeletedOnExit ==
    (caller = "api" /\ rpc = "done" /\ spawnCalls > 0) =>
        /\ unlinks = {"video", "captions", "output"}
        /\ (exitCode = 0 /\ outFile # "absent") => response = 200

\* the state of the promise returned by runRenderScript
Promise ==
    CASE rpc \in {"await", "spawnError"} -> "pending"
      [] rpc = "read" -> "resolved"
      [] rpc = "done" /\ spawnCalls > 0 /\ exitCode = 0 -> "resolved"
      [] rpc = "done" /\ spawnCalls > 0 /\ exitCode # 0 -> "rejected"
      [] OTHER -> "none"

\* the child has terminated, or could not be started
ChildOver ==
    /\ caller = "api"
    /\ spawnCalls > 0
    /\ (pc = "exited" \/ rpc = "spawnError")

\* C37: the promise returned by runRenderScript resolves exactly when the
\* child closed with exit code 0 and rejects on every other outcome, a
\* failure to spawn the child included; so POST eventually sends a
\* response once the child has terminated or failed to start.
C37_PromiseSettles ==
    /\ [](Promise = "resolved" => (pc = "exited" /\ exitCode = 0))
    /\ [](Promise = "rejected" => response = 500)
    /\ ChildOver ~> (Promise \in {"resolved", "rejected"} /\ response # 0)

StepsTaken ==
    << "validate" >>
    \o (IF pending = "usage" THEN << >> ELSE << "parse" >>)
    \o (IF server # "none" \/ pending \in {"videoNotFound", "listen"}
        THEN << "start server" >> ELSE << >>)
    \o (IF calls.bundle > 0 THEN << "bundle" >> ELSE << >>)
    \o (IF calls.select > 0 THEN << "select" >> ELSE << >>)
    \o (IF calls.render > 0 THEN << "render" >> ELSE << >>)
    \o (IF closeCalls > 0 THEN << "close server" >> ELSE << >>)

\* e holds the answers the environment gave to the run that has ended
\* (the answers to calls the run never made are free)
Observed(e) ==
    /\ (server # "none" \/ pending \in {"videoNotFound", "listen"})
          => /\ e.videoExists = videoExists
             /\ videoExists => e.listenOk = (pending # "listen")
    /\ server # "none" => e.port = port
    /\ calls.bundle > 0
          => e.bundleOk = ~(pending = "engine" /\ calls.select = 0)
    /\ calls.select > 0
          => e.selectOk = ~(pending = "engine" /\ calls.render = 0)
    /\ calls.render > 0
          => /\ e.render = (CASE pending = "engine" -> "reject"
                               [] pending = "timeout" -> "timeout"
                               [] OTHER -> "ok")
             /\ e.render = "ok" => e.outFile = outFile

\* the run that has ended and the run of the variant without B-roll in
\* environment e took the same steps, closed their server alike, handed
\* the engine the same input properties but for bRolls: [], and answer
\* every /video request alike; withExit: and exited with the same code
VariantsAgreeOn(e, withExit) ==
    LET plain == PlainMain(argv, manifest, durationArg, e)
    IN  /\ plain.steps = StepsTaken
        /\ withExit => plain.exitCode = exitCode
        /\ plain.server = server
        /\ plain.built = inputProps.built
        /\ plain.built =>
              /\ inputProps.bRolls = << >>
              /\ \A f \in DOMAIN plain.props :
                    plain.props[f] = inputProps[f]
        /\ \A r \in Ranges, size \in 0..MaxFileSize :
              PlainHandleRequest(MkRequest("video", EmptyName, r), size)
              = HandleRequest(MkRequest("video", EmptyName, r), size,
                              brollFiles, 1)

\* a run of the command line over a flat caption array has ended
ArrayRunOver == caller = "cli" /\ pc = "exited" /\ manifest.kind = "array"

\* C39 (as stated): for a manifest that is a flat caption array the two
\* variants of render.mjs behave the same: they take the same steps in
\* the same order (validate, parse, start server, bundle, select, render,
\* close server) and end alike, answer every /video request alike, and
\* hand the engine the same input properties, but for the added
\* bRolls: [].
C39_VariantsAgree ==
    ArrayRunOver =>
        \A e \in PlainEnvs : Observed(e) => VariantsAgreeOn(e, TRUE)

\* C39 (amended): for a manifest that is a flat caption array the two
\* variants take the same steps, answer every /video request alike and
\* hand the engine the same input properties but for bRolls: [], with two
\* exceptions that come from steps only the B-roll-aware variant has: it
\* creates the staging directory before it starts the server, and fails
\* there, having started nothing, when the directory cannot be created;
\* and it stats the output file after renderMedia, and fails, where the
\* other variant succeeds, when there is no output file.
C39_VariantsAgreeButStagingAndStat ==
    ArrayRunOver =>
        /\ pending = "mkdtemp"
              => /\ StepsTaken = << "validate", "parse" >>
                 /\ server = "none"
                 /\ exitCode = 1
        /\ pending = "stat"
              => /\ exitCode = 1
                 /\ \A e \in PlainEnvs :
                       Observed(e) =>
                           /\ VariantsAgreeOn(e, FALSE)
                           /\ PlainMain(argv, manifest, durationArg,
                                        e).exitCode = 0
        /\ pending \notin {"mkdtemp", "stat"}
              => \A e \in PlainEnvs :
                     Observed(e) => VariantsAgreeOn(e, TRUE)

\* a run over a caption array with one caption and a duration of 2
\* seconds has rendered and exited with code 0
C39_Witness ==
    /\ ArrayRunOver
    /\ exitCode = 0
    /\ inputProps.captions = << "hi" >>
    /\ inputProps.durationInSeconds = [defined |-> TRUE, value |-> 2]
    /\ inputProps.bRolls = << >>
    /\ calls.render = 1

====
